---- MODULE Spec2Model ----
(***************************************************************************)
(* Document Evolution Pipeline of dellis317/provocations.                  *)
(*                                                                         *)
(* Two implementations of the pipeline are modelled side by side:          *)
(*   "web" - the Express server (src/server/routes.ts) and its React       *)
(*           client (Workspace component, src/unnamed/part_001);           *)
(*   "gas" - the Apps Script add-on (src/gas/*.gs).                        *)
(*                                                                         *)
(* Texts are TLA+ strings; the string operations of the source             *)
(* (toLowerCase, trim, slice/substring, indexOf, RegExp.test) are defined  *)
(* below by what they do on the characters.                                *)
(***************************************************************************)
EXTENDS Integers, Sequences, FiniteSets, TLC

VARIABLES
    \* ---- instruction classifier harness -------------------------------
    clsImpl,          \* implementation whose classifier is applied
    clsInput,         \* instruction handed to classifyInstruction
    clsResult,        \* returned InstructionType ("none" before the call)
    clsCalls,         \* calls of classifyInstruction made so far, in order
    regexLastIndex,   \* lastIndex of every RegExp object of the pattern table
    \* ---- one run of the write handler (POST /api/write, writeDocument) -
    impl,             \* "web" or "gas"
    pc,               \* position of the handler
    request,          \* the request body: [document, objective, instruction]
    instructionType,  \* local `instructionType`
    evolvedDocument,  \* local `evolvedDocument`
    calls,            \* generation requests issued so far, in order
    generation,       \* the completion of the document-generation call
    replies,          \* what came back for each analysis request, in order
    analysis,         \* result of the change analysis
    response,         \* what the handler returned to its caller
    sheetVersions,    \* rows of the add-on's "Versions" sheet
    currentDocId,     \* user property CURRENT_DOC_ID of the add-on
    \* ---- the Workspace component of the web client --------------------
    phase,            \* "input", "blank-document" or "workspace"
    document,         \* state `document`: null or a Document
    versions,         \* state `versions`
    showDiffView,     \* state `showDiffView`
    editHistory,      \* state `editHistory`
    analyzing,        \* analyzeMutation's mutations in flight
    writing,          \* writeMutation's mutations in flight
    editing,          \* ReadingPane prompt edits in flight
    writeLog,         \* every write applied since the last reset, in order
    \* ---- DiffView ----------------------------------------------------
    diffOld,          \* previousVersion.text
    diffNew,          \* currentVersion.text
    diffLines,        \* what computeDiff returned (<<>> before the render)
    oldIdx,           \* local `oldIdx` of computeDiff (1-based)
    newIdx,           \* local `newIdx` of computeDiff (1-based)
    result,           \* local `result` of computeDiff
    \* ---- access control of the add-on --------------------------------
    adminSheet,       \* the admin spreadsheet (script property ADMIN_SHEET_ID)
    geminiModel,      \* script property GEMINI_MODEL
    docContent,       \* text of the Google Doc the add-on is bound to
    invitations,      \* emails invited and not revoked since (history)
    lastCall,         \* the last server function run, for whom, how it ended
    \* ---- the outline of the Workspace component ----------------------
    outline,          \* state `outline`
    now,              \* Date.now() at the last reading of the clock
    provocations,     \* state `provocations`
    \* ---- context assembly of the write handler -----------------------
    ctxImpl,          \* implementation whose write handler assembles
    ctxRequest,       \* the fields of the request the assembly reads
    contextParts,     \* local `contextParts`
    contextSection,   \* local `contextSection`
    ctxSections,      \* contextSection of every assembly made, in order
    \* ---- the add-on's analyzeText and its sheets ----------------------
    sheetDocuments,   \* rows of the add-on's "Documents" sheet
    sheetAnalysis,    \* rows of the add-on's "Analysis" sheet
    lenses,           \* local `lenses` of analyzeText
    analyzeResults    \* what analyzeText has returned so far, in order

clsVars == <<clsImpl, clsInput, clsResult, clsCalls, regexLastIndex>>
writeVars == <<impl, pc, request, instructionType, evolvedDocument, calls,
               generation, replies, analysis, response, sheetVersions,
               currentDocId>>
clientVars == <<phase, document, versions, showDiffView, editHistory,
                analyzing, writing, editing, writeLog>>
diffVars == <<diffOld, diffNew, diffLines, oldIdx, newIdx, result>>
gasVars == <<sheetDocuments, sheetAnalysis, lenses, analyzeResults>>
ctxVars == <<ctxImpl, ctxRequest, contextParts, contextSection, ctxSections>>
outVars == <<outline, now, provocations>>
accVars == <<adminSheet, geminiModel, docContent, invitations, lastCall>>
vars == <<clsVars, writeVars, clientVars, diffVars, gasVars, ctxVars, outVars,
          accVars>>

\* what an action of one part leaves alone in the others
notCls == <<writeVars, clientVars, diffVars, gasVars, ctxVars, outVars,
    accVars>>
notWrite == <<clsVars, clientVars, diffVars, gasVars, ctxVars, outVars,
    accVars>>
notClient == <<clsVars, writeVars, diffVars, gasVars, ctxVars, outVars,
    accVars>>
notDiff == <<clsVars, writeVars, clientVars, gasVars, ctxVars, outVars,
    accVars>>
notGas == <<clsVars, clientVars, diffVars, ctxVars, outVars,
    accVars>>
notAcc == <<clsVars, writeVars, clientVars, diffVars, gasVars, ctxVars, outVars>>
\* what the handlers of the Workspace component leave alone outside it
notWorkspace == <<clsVars, writeVars, diffVars, gasVars, ctxVars,
    accVars>>
notCtx == <<clsVars, writeVars, clientVars, diffVars, gasVars, outVars,
    accVars>>

Impls == {"web", "gas"}

-----------------------------------------------------------------------------
(* Strings                                                                 *)

Min(a, b) == IF a < b THEN a ELSE b
Max(a, b) == IF a > b THEN a ELSE b

UpperLetters == "ABCDEFGHIJKLMNOPQRSTUVWXYZ"
LowerLetters == "abcdefghijklmnopqrstuvwxyz"

CharAt(s, i) == SubSeq(s, i, i)

\* String.prototype.toLowerCase on one character (ASCII letters).
LowerOf == [c \in {CharAt(UpperLetters, i) : i \in 1..26} |->
              CharAt(LowerLetters, CHOOSE i \in 1..26 : CharAt(UpperLetters, i) = c)]

LowerChar(c) == IF c \in DOMAIN LowerOf THEN LowerOf[c] ELSE c

\* String.prototype.toLowerCase: character by character, the string being
\* halved so that long instructions stay shallow
RECURSIVE ToLowerCase(_)
ToLowerCase(s) ==
    IF Len(s) <= 1 THEN LowerChar(s)
    ELSE LET half == Len(s) \div 2
         IN  ToLowerCase(SubSeq(s, 1, half)) \o ToLowerCase(SubSeq(s, half + 1, Len(s)))

\* String.prototype.indexOf(p) !== -1
Includes(s, p) ==
    \E i \in 1..(Len(s) - Len(p) + 1) : SubSeq(s, i, i + Len(p) - 1) = p

\* positions at which p occurs in s
Occurrences(s, p) ==
    {i \in 1..(Len(s) - Len(p) + 1) : SubSeq(s, i, i + Len(p) - 1) = p}

\* String.prototype.slice(0, n) / substring(0, n)
Slice(s, n) == SubSeq(s, 1, Min(n, Len(s)))

IsSpace(c) == c \in {" ", "\n", "\t"}

RECURSIVE TrimStart(_)
TrimStart(s) ==
    IF s # "" /\ IsSpace(CharAt(s, 1)) THEN TrimStart(Tail(s)) ELSE s

RECURSIVE TrimEnd(_)
TrimEnd(s) ==
    IF s # "" /\ IsSpace(CharAt(s, Len(s)))
    THEN TrimEnd(SubSeq(s, 1, Len(s) - 1)) ELSE s

\* String.prototype.trim
Trim(s) == TrimEnd(TrimStart(s))

RECURSIVE Repeat(_, _)
Repeat(c, n) ==
    IF n = 0 THEN ""
    ELSE IF n = 1 THEN c
    ELSE Repeat(c, n \div 2) \o Repeat(c, n - n \div 2)

-----------------------------------------------------------------------------
(* 4.1 Instruction classifier                                              *)

\* A pattern is [a, b]: b = "" is the literal a; otherwise the regular
\* expression a.*b (the only operator the pattern table uses).
Lit(a) == [a |-> a, b |-> ""]
DotStar(a, b) == [a |-> a, b |-> b]

\* RegExp.prototype.test for /a/i and /a.*b/i on a subject t that
\* classifyInstruction has already lower-cased (the patterns are lower-case,
\* so the flag i adds nothing there): "." matches any character except a
\* line terminator.
RegExpTest(p, t) ==
    IF p.b = "" THEN Includes(t, p.a)
    ELSE \E i \in Occurrences(t, p.a) : \E j \in Occurrences(t, p.b) :
            /\ j >= i + Len(p.a)
            /\ ~Includes(SubSeq(t, i + Len(p.a), j - 1), "\n")

\* String.prototype.indexOf match of the add-on (plain substrings).
IndexOfTest(p, s) == Includes(s, p.a \o p.b)

instructionPatterns ==
    << [type |-> "expand", patterns |->
          <<Lit("expand"), Lit("elaborate"), DotStar("add", "detail"),
            Lit("develop"), Lit("flesh out"), Lit("more about"),
            Lit("tell me more"), DotStar("explain", "further")>>],
       [type |-> "condense", patterns |->
          <<Lit("condense"), Lit("shorten"), Lit("shorter"), Lit("summarize"),
            Lit("brief"), Lit("concise"), Lit("cut"), Lit("reduce"),
            Lit("tighten"), Lit("trim")>>],
       [type |-> "restructure", patterns |->
          <<Lit("restructure"), Lit("reorganize"), Lit("reorder"), Lit("move"),
            Lit("rearrange"), DotStar("add", "section"),
            DotStar("add", "heading"), Lit("split"),
            DotStar("merge", "section")>>],
       [type |-> "clarify", patterns |->
          <<Lit("clarify"), Lit("simplify"), Lit("clearer"),
            DotStar("easier", "understand"), Lit("plain"),
            Lit("straightforward"), Lit("confus")>>],
       [type |-> "style", patterns |->
          <<Lit("tone"), Lit("voice"), Lit("formal"), Lit("informal"),
            Lit("professional"), Lit("casual"), Lit("friendly"),
            Lit("academic"), Lit("style")>>],
       [type |-> "correct", patterns |->
          <<Lit("fix"), Lit("correct"), Lit("error"), Lit("mistake"),
            Lit("typo"), Lit("grammar"), Lit("spelling"), Lit("wrong"),
            Lit("inaccurate")>>],
       [type |-> "general", patterns |-> <<>>] >>

INSTRUCTION_PATTERNS ==
    << [type |-> "expand", patterns |->
          <<Lit("expand"), Lit("elaborate"), Lit("add detail"),
            Lit("develop"), Lit("flesh out"), Lit("more about"),
            Lit("tell me more"), Lit("explain further")>>],
       [type |-> "condense", patterns |->
          <<Lit("condense"), Lit("shorten"), Lit("shorter"), Lit("summarize"),
            Lit("brief"), Lit("concise"), Lit("cut"), Lit("reduce"),
            Lit("tighten"), Lit("trim")>>],
       [type |-> "restructure", patterns |->
          <<Lit("restructure"), Lit("reorganize"), Lit("reorder"), Lit("move"),
            Lit("rearrange"), Lit("add section"), Lit("add heading"),
            Lit("split"), Lit("merge section")>>],
       [type |-> "clarify", patterns |->
          <<Lit("clarify"), Lit("simplify"), Lit("clearer"),
            Lit("easier to understand"), Lit("plain"),
            Lit("straightforward"), Lit("confus")>>],
       [type |-> "style", patterns |->
          <<Lit("tone"), Lit("voice"), Lit("formal"), Lit("informal"),
            Lit("professional"), Lit("casual"), Lit("friendly"),
            Lit("academic"), Lit("style")>>],
       [type |-> "correct", patterns |->
          <<Lit("fix"), Lit("correct"), Lit("error"), Lit("mistake"),
            Lit("typo"), Lit("grammar"), Lit("spelling"), Lit("wrong"),
            Lit("inaccurate")>>] >>

PatternTable(i) == IF i = "web" THEN instructionPatterns ELSE INSTRUCTION_PATTERNS

PatternTest(i, p, s) == IF i = "web" THEN RegExpTest(p, s) ELSE IndexOfTest(p, s)

\* The two nested loops of classifyInstruction: k walks the table in
\* declaration order, n walks the patterns of entry k; the first pattern
\* that matches returns its entry's type.
RECURSIVE ClassifyFrom(_, _, _, _)
ClassifyFrom(i, lower, k, n) ==
    LET table == PatternTable(i) IN
    IF k > Len(table) THEN "general"
    ELSE IF table[k].type = "general" THEN ClassifyFrom(i, lower, k + 1, 1)
    ELSE IF n > Len(table[k].patterns) THEN ClassifyFrom(i, lower, k + 1, 1)
    ELSE IF PatternTest(i, table[k].patterns[n], lower) THEN table[k].type
    ELSE ClassifyFrom(i, lower, k, n + 1)

\* Mutant: the loop keeps going and the LAST matching category wins.
RECURSIVE ClassifyLastFrom(_, _, _, _)
ClassifyLastFrom(i, lower, k, found) ==
    LET table == PatternTable(i) IN
    IF k > Len(table) THEN found
    ELSE IF \E n \in 1..Len(table[k].patterns) :
                PatternTest(i, table[k].patterns[n], lower)
         THEN ClassifyLastFrom(i, lower, k + 1, table[k].type)
         ELSE ClassifyLastFrom(i, lower, k + 1, found)

classifyInstruction_lastWins(i, instruction) ==
    ClassifyLastFrom(i, ToLowerCase(instruction), 1, "general")

classifyInstruction(i, instruction) ==
    ClassifyFrom(i, ToLowerCase(instruction), 1, 1)

\* The RegExp objects of the table are module-level values that live across
\* calls; each carries a lastIndex, which test() reads and writes only when
\* the object has the flag g (or y).  Mutant first: every literal were /../gi.
GlobalFlag_g(p) == TRUE

\* The literals are written /../i: no flag g.
GlobalFlag(p) == FALSE

PatternIds ==
    {<<k, n>> : k \in 1..Len(instructionPatterns), n \in 1..10}

NoLastIndex == [id \in PatternIds |-> 0]

\* End (0-based, exclusive) of the leftmost match of p in t that starts at
\* 0-based index >= from; 0 - 1 when there is none.  ".*" is greedy and
\* stays on one line.
MatchEnd(p, t, from) ==
    LET starts == {i \in Occurrences(t, p.a) : i - 1 >= from}
        ends(i) == IF p.b = "" THEN {i - 1 + Len(p.a)}
                   ELSE {j - 1 + Len(p.b) : j \in
                          {j \in Occurrences(t, p.b) :
                             /\ j >= i + Len(p.a)
                             /\ ~Includes(SubSeq(t, i + Len(p.a), j - 1), "\n")}}
        good == {i \in starts : ends(i) # {}}
    IN  IF good = {} THEN 0 - 1
        ELSE LET i == CHOOSE x \in good : \A y \in good : x <= y
             IN  CHOOSE e \in ends(i) : \A f \in ends(i) : f <= e

\* RegExp.prototype.test on an object whose lastIndex is li: without the
\* flag g the search starts at 0 and lastIndex is left alone; with it the
\* search starts at lastIndex, which becomes the end of the match, or 0
\* when there is none.
RegExpExec(p, t, li) ==
    IF ~GlobalFlag(p) THEN [found |-> RegExpTest(p, t), lastIndex |-> li]
    ELSE LET e == MatchEnd(p, t, li)
         IN  IF li > Len(t) \/ e < 0 THEN [found |-> FALSE, lastIndex |-> 0]
             ELSE [found |-> TRUE, lastIndex |-> e]

\* One pattern.test (web) or indexOf (add-on, no object state) of the loop.
PatternExec(i, p, s, li) ==
    IF i = "web" THEN RegExpExec(p, s, li)
    ELSE [found |-> IndexOfTest(p, s), lastIndex |-> li]

\* The loops of classifyInstruction run against the RegExp objects as they
\* are; the result is the returned type and the objects' lastIndex after.
RECURSIVE ClassifyRun(_, _, _, _, _)
ClassifyRun(i, lower, k, n, li) ==
    LET table == PatternTable(i) IN
    IF k > Len(table) THEN [type |-> "general", lastIndex |-> li]
    ELSE IF table[k].type = "general" THEN ClassifyRun(i, lower, k + 1, 1, li)
    ELSE IF n > Len(table[k].patterns) THEN ClassifyRun(i, lower, k + 1, 1, li)
    ELSE LET r == PatternExec(i, table[k].patterns[n], lower, li[<<k, n>>])
             after == [li EXCEPT ![<<k, n>>] = r.lastIndex]
         IN  IF r.found THEN [type |-> table[k].type, lastIndex |-> after]
             ELSE ClassifyRun(i, lower, k, n + 1, after)

classifyInstructionRun(i, instruction, li) ==
    ClassifyRun(i, ToLowerCase(instruction), 1, 1, li)

-----------------------------------------------------------------------------
(* Classifier harness: the instruction is drawn from phrases joined by     *)
(* blanks, the action applies classifyInstruction.                         *)

MaxPhrases == 2

Phrases ==
    {"please expand this section", "Shorten", "adjust the TONE",
     "fix the typo in paragraph 2", "reorganize the intro", "make it pop",
     "add more detail", "add\ndetail", "make it easier to understand",
     "Simplify", "add a new section", "explain this further"}

RECURSIVE PhraseJoins(_)
PhraseJoins(n) ==
    IF n = 1 THEN Phrases
    ELSE PhraseJoins(n - 1) \cup
         {a \o " " \o b : a \in PhraseJoins(n - 1), b \in Phrases}

ClassifierInputs == PhraseJoins(MaxPhrases)

ClsInit ==
    /\ clsImpl \in Impls
    /\ clsInput \in ClassifierInputs
    /\ clsResult = "none"
    /\ clsCalls = <<>>
    /\ regexLastIndex = NoLastIndex

Classify ==
    /\ clsResult = "none"
    /\ clsResult' = classifyInstruction(clsImpl, clsInput)
    /\ UNCHANGED <<clsImpl, clsInput, clsCalls, regexLastIndex>>
    /\ UNCHANGED notCls

\* Repeated calls: any caller may classify any instruction at any time; the
\* call runs against the pattern objects as earlier calls left them.
MaxCalls == 3

CallInputs ==
    {"please expand this section", "fix the typo in paragraph 2",
     "reorganize the intro", "make it pop", "add more detail"}

ClassifyCall(i, instruction) ==
    /\ Len(clsCalls) < MaxCalls
    /\ LET r == classifyInstructionRun(i, instruction, regexLastIndex)
       IN  /\ clsCalls' = Append(clsCalls, [impl |-> i,
                                            instruction |-> instruction,
                                            type |-> r.type])
           /\ regexLastIndex' = r.lastIndex
    /\ UNCHANGED <<clsImpl, clsInput, clsResult>>
    /\ UNCHANGED notCls

-----------------------------------------------------------------------------
(* Generation model: what the vended text-generation call can give back    *)

\* message content of a completion: absent (no choice / no part) or a text
NullContent == [kind |-> "null", text |-> ""]
TextContent(t) == [kind |-> "text", text |-> t]

\* JavaScript truthiness of `content` in `content || fallback`
Truthy(c) == c.kind = "text" /\ c.text # ""

\* extractContent_: no candidate or no part gives '', otherwise the
\* concatenated parts, trimmed.
extractContent_(c) == IF c.kind = "null" THEN "" ELSE Trim(c.text)

\* ---- JSON values the change analyzer can be handed ----------------------
AbsentField == [kind |-> "absent", text |-> ""]
StrField(t) == [kind |-> "str", text |-> t]
NumField(t) == [kind |-> "num", text |-> t]      \* a truthy non-string

NotArray == [isArray |-> FALSE, items |-> <<>>]
Array(items) == [isArray |-> TRUE, items |-> items]

\* an element of `changes`: the JSON null, or an object whose type,
\* description and location are strings ("" = the key is absent)
NullChange == [isNull |-> TRUE, type |-> "", description |-> "", location |-> ""]
Change(t, d, l) == [isNull |-> FALSE, type |-> t, description |-> d, location |-> l]

\* an element of `suggestions`
StrItem(t) == [isString |-> TRUE, text |-> t]
NumItem == [isString |-> FALSE, text |-> "1"]

JsonNull == [kind |-> "null", summary |-> AbsentField, changes |-> NotArray,
             suggestions |-> NotArray]
\* a number, string, boolean or array at top level: no property is defined
JsonPrimitive == [kind |-> "prim", summary |-> AbsentField, changes |-> NotArray,
                  suggestions |-> NotArray]
JsonObject(s, c, g) == [kind |-> "object", summary |-> s, changes |-> c,
                        suggestions |-> g]

\* ---- the text of an analysis completion ---------------------------------
\* "null": no content; "empty": ''; "garbage": text that is no JSON;
\* "json": the JSON text of `value`; "fenced": that text inside ```json ... ```
AnalysisText(k, v) == [kind |-> k, value |-> v]

\* content.replace(/^```json\s*/i, '').replace(/\s*```$/i, '')
StripFences(c) == IF c.kind = "fenced" THEN [c EXCEPT !.kind = "json"] ELSE c

\* JSON.parse: the value, or a SyntaxError
JSONParse(c) ==
    IF c.kind = "json" THEN [ok |-> TRUE, value |-> c.value]
    ELSE [ok |-> FALSE, value |-> JsonNull]

-----------------------------------------------------------------------------
(* 4.4 Change analyzer                                                     *)

SummaryLimit == 100
MaxChangesKept == 3
MaxSuggestionsKept == 2

validTypes == {"added", "modified", "removed", "restructured"}

\* Mutant: the fallback summary never marks a truncated instruction.
DefaultSummary_noEllipsis(instruction) ==
    "Applied: " \o Slice(instruction, SummaryLimit)

\* `Applied: ${instruction.slice(0, 100)}${instruction.length > 100 ? "..." : ""}`
DefaultSummary(instruction) ==
    "Applied: " \o Slice(instruction, SummaryLimit)
        \o (IF Len(instruction) > SummaryLimit THEN "..." ELSE "")

AnalysisResult(s, c, g) == [summary |-> s, changes |-> c, suggestions |-> g]

defaultResult(instruction) ==
    AnalysisResult(StrField(DefaultSummary(instruction)), <<>>, <<>>)

NoAnalysis == AnalysisResult(AbsentField, <<>>, <<>>)

\* Mutant: an unknown type is passed through.
MapChange_keepType(c) ==
    [type |-> c.type,
     description |-> IF c.description # "" THEN c.description ELSE "Document updated",
     location |-> c.location]

\* the callback of changes.slice(0, 3).map(...)
MapChange(c) ==
    [type |-> IF c.type \in validTypes THEN c.type ELSE "modified",
     description |-> IF c.description # "" THEN c.description ELSE "Document updated",
     location |-> c.location]

Take(seq, n) == SubSeq(seq, 1, Min(n, Len(seq)))

\* Mutant: the whole array is kept.
ClampChanges_all(items) == items

ClampChanges(items) == Take(items, MaxChangesKept)

RECURSIVE FilterStrings(_)
FilterStrings(items) ==
    IF items = <<>> THEN <<>>
    ELSE IF Head(items).isString
         THEN <<Head(items).text>> \o FilterStrings(Tail(items))
         ELSE FilterStrings(Tail(items))

\* suggestions.filter(s => typeof s === 'string').slice(0, 2)
MapSuggestions(field) ==
    IF field.isArray THEN Take(FilterStrings(field.items), MaxSuggestionsKept)
    ELSE <<>>

\* reading a property of null throws a TypeError
ThrowsInMap(field) ==
    /\ field.isArray
    /\ \E n \in 1..Len(ClampChanges(field.items)) : ClampChanges(field.items)[n].isNull

MapChanges(field) ==
    IF field.isArray
    THEN [n \in 1..Len(ClampChanges(field.items)) |->
            MapChange(ClampChanges(field.items)[n])]
    ELSE <<>>

\* routes.ts: the try block after the analysis completion has arrived.
\* Assignments made before an exception are kept: summary is assigned first,
\* changes second, suggestions last.
WebReadAnalysis(content, instruction) ==
    LET text == IF content.kind \in {"null", "empty"}
                THEN AnalysisText("json", JsonObject(AbsentField, NotArray, NotArray))
                ELSE content
        parsed == JSONParse(text)
        v == parsed.value
        dflt == defaultResult(instruction)
        summary == IF v.summary.kind = "str" THEN StrField(v.summary.text)
                   ELSE dflt.summary
    IN  IF ~parsed.ok \/ v.kind = "null" THEN dflt
        ELSE IF v.kind = "prim" THEN dflt
        ELSE IF ThrowsInMap(v.changes) THEN AnalysisResult(summary, <<>>, <<>>)
        ELSE AnalysisResult(summary, MapChanges(v.changes),
                            MapSuggestions(v.suggestions))

\* WriterService.gs: the object literal analyzeChanges_ returns for a parsed
\* `result`; any exception is caught and gives defaultResult.
GasReadAnalysis(v, instruction) ==
    LET dflt == defaultResult(instruction)
        summary == IF v.summary.kind = "absent" \/ v.summary.text = ""
                   THEN dflt.summary ELSE v.summary
    IN  IF v.kind = "null" THEN dflt
        ELSE IF ThrowsInMap(v.changes) THEN dflt
        ELSE AnalysisResult(summary, MapChanges(v.changes),
                            MapSuggestions(v.suggestions))

-----------------------------------------------------------------------------
(* 4.3 / 4.4 The write handler: POST /api/write and writeDocument          *)

GenerateCall == [kind |-> "generate", retryInstruction |-> FALSE]
AnalysisCall == [kind |-> "analysis", retryInstruction |-> FALSE]
\* the second callGemini of callGeminiJson: userPrompt carries the appended
\* "IMPORTANT: Respond with ONLY valid JSON. ..." instruction
RetryCall == [kind |-> "analysis", retryInstruction |-> TRUE]

Reply(c, o) == [content |-> c, outcome |-> o]
NoReplyText == AnalysisText("null", JsonNull)

NoResponse ==
    [status |-> "none", code |-> 0, error |-> "", document |-> "",
     summary |-> AbsentField, instructionType |-> "", changes |-> <<>>,
     suggestions |-> <<>>]

ErrorResponse(st, code, msg) ==
    [NoResponse EXCEPT !.status = st, !.code = code, !.error = msg]

\* res.json({ document: evolvedDocument.trim(), summary, instructionType,
\*            changes, suggestions })
OkResponse(type, evolved, an) ==
    [status |-> "ok", code |-> 200, error |-> "",
     document |-> Trim(evolved),
     summary |-> an.summary,
     instructionType |-> type,
     changes |-> an.changes,
     suggestions |-> an.suggestions]

\* saveVersion: appendRow([id, currentDocId, text, description, now])
VersionRow(docId, text, description) ==
    [documentId |-> docId, text |-> text, description |-> description]

saveVersion(sheet, docId, text, description) ==
    Append(sheet, VersionRow(docId, text, description))

\* Mutant: the schema without its rule on the instruction.
WebValid_noInstruction(body) == body.document # "" /\ body.objective # ""

\* writeRequestSchema.safeParse: document, objective and instruction min(1)
WebValid(body) ==
    body.document # "" /\ body.objective # "" /\ body.instruction # ""

\* !request.document || !request.instruction
GasValid(body) == body.document # "" /\ body.instruction # ""

WebReceive(body) ==
    /\ impl = "web" /\ pc = "idle"
    /\ request' = body
    /\ IF WebValid(body)
       THEN /\ instructionType' = classifyInstruction("web", body.instruction)
            /\ calls' = Append(calls, GenerateCall)
            /\ pc' = "generate"
            /\ UNCHANGED response
       ELSE /\ response' = ErrorResponse("invalid", 400, "Invalid request")
            /\ pc' = "done"
            /\ UNCHANGED <<calls, instructionType>>
    /\ UNCHANGED <<impl, evolvedDocument, generation, replies, analysis,
                   sheetVersions, currentDocId>>
    /\ UNCHANGED notWrite

\* documentResponse.choices[0]?.message?.content || document, then the
\* analysis completion is requested
WebGenerateReturns(c) ==
    /\ impl = "web" /\ pc = "generate"
    /\ evolvedDocument' = IF Truthy(c) THEN c.text ELSE request.document
    /\ generation' = [returned |-> TRUE, content |-> c]
    /\ calls' = Append(calls, AnalysisCall)
    /\ pc' = "analysis"
    /\ UNCHANGED <<impl, request, instructionType, replies, analysis, response, sheetVersions,
                   currentDocId>>
    /\ UNCHANGED notWrite

\* Mutant: the handler asks again when the awaited completion rejects.
WebCallFails_retry ==
    /\ impl = "web" /\ pc \in {"generate", "analysis"}
    /\ Len(calls) < 4
    /\ calls' = Append(calls, calls[Len(calls)])
    /\ UNCHANGED <<impl, pc, request, instructionType, generation,
                   evolvedDocument, replies, analysis, response,
                   sheetVersions, currentDocId>>
    /\ UNCHANGED notWrite

\* the awaited completion rejects: the outer catch answers 500
WebCallFails ==
    /\ impl = "web" /\ pc \in {"generate", "analysis"}
    /\ replies' = IF pc = "analysis"
                  THEN Append(replies, Reply(NoReplyText, "failed"))
                  ELSE replies
    /\ response' = ErrorResponse("error", 500, "Failed to evolve document")
    /\ pc' = "done"
    /\ UNCHANGED <<impl, request, instructionType, generation, evolvedDocument, calls, analysis,
                   sheetVersions, currentDocId>>
    /\ UNCHANGED notWrite

WebAnalysisReturns(c) ==
    /\ impl = "web" /\ pc = "analysis"
    /\ LET an == WebReadAnalysis(c, request.instruction)
           text == IF c.kind \in {"null", "empty"}
                   THEN AnalysisText("json", JsonObject(AbsentField, NotArray, NotArray))
                   ELSE c
       IN  /\ analysis' = an
           /\ replies' = Append(replies,
                  Reply(c, IF JSONParse(text).ok THEN "parsed" ELSE "unparsable"))
           /\ response' = OkResponse(instructionType, evolvedDocument, an)
    /\ pc' = "done"
    /\ UNCHANGED <<impl, request, instructionType, generation, evolvedDocument, calls, sheetVersions,
                   currentDocId>>
    /\ UNCHANGED notWrite

GasReceive(body) ==
    /\ impl = "gas" /\ pc = "idle"
    /\ request' = body
    /\ IF GasValid(body)
       THEN /\ instructionType' = classifyInstruction("gas", body.instruction)
            /\ calls' = Append(calls, GenerateCall)
            /\ pc' = "generate"
            /\ UNCHANGED response
       ELSE /\ response' = ErrorResponse("invalid", 0,
                               "Document and instruction are required")
            /\ pc' = "done"
            /\ UNCHANGED <<calls, instructionType>>
    /\ UNCHANGED <<impl, evolvedDocument, generation, replies, analysis,
                   sheetVersions, currentDocId>>
    /\ UNCHANGED notWrite

\* evolveDocument_: result.content || document, then analyzeChanges_ calls
\* callGeminiJson, which issues its first request
GasGenerateReturns(c) ==
    /\ impl = "gas" /\ pc = "generate"
    /\ evolvedDocument' = IF extractContent_(c) # "" THEN extractContent_(c)
                          ELSE request.document
    /\ generation' = [returned |-> TRUE, content |-> c]
    /\ calls' = Append(calls, AnalysisCall)
    /\ pc' = "analysis"
    /\ UNCHANGED <<impl, request, instructionType, replies, analysis, response, sheetVersions,
                   currentDocId>>
    /\ UNCHANGED notWrite

\* callGemini throws inside evolveDocument_: nothing catches it
GasGenerateFails ==
    /\ impl = "gas" /\ pc = "generate"
    /\ response' = ErrorResponse("error", 0, "Gemini API error")
    /\ pc' = "done"
    /\ UNCHANGED <<impl, request, instructionType, generation, evolvedDocument, calls, replies, analysis,
                   sheetVersions, currentDocId>>
    /\ UNCHANGED notWrite

\* the tail of writeDocument once analyzeChanges_ has returned `an`
GasFinish(an) ==
    /\ analysis' = an
    /\ sheetVersions' = saveVersion(sheetVersions, currentDocId, evolvedDocument,
                           IF an.summary.text # "" THEN an.summary.text
                           ELSE "Document updated")
    /\ response' = OkResponse(instructionType, evolvedDocument, an)
    /\ pc' = "done"
    /\ UNCHANGED <<impl, request, instructionType, generation, evolvedDocument, currentDocId>>

\* callGeminiJson, first response: parsed, or the retry request is issued
GasAnalysisReturns(c) ==
    /\ impl = "gas" /\ pc = "analysis"
    /\ LET parsed == JSONParse(StripFences(c)) IN
       IF parsed.ok
       THEN /\ replies' = Append(replies, Reply(c, "parsed"))
            /\ GasFinish(GasReadAnalysis(parsed.value, request.instruction))
            /\ UNCHANGED calls
       ELSE /\ replies' = Append(replies, Reply(c, "unparsable"))
            /\ calls' = Append(calls, RetryCall)
            /\ pc' = "retry"
            /\ UNCHANGED <<impl, request, instructionType, generation, evolvedDocument, analysis, response,
                           sheetVersions, currentDocId>>
    /\ UNCHANGED notWrite

\* callGeminiJson, response to the retry: parsed, or
\* 'Failed to get valid JSON from Gemini after retry' is thrown and caught
GasRetryReturns(c) ==
    /\ impl = "gas" /\ pc = "retry"
    /\ LET parsed == JSONParse(StripFences(c)) IN
       /\ replies' = Append(replies,
              Reply(c, IF parsed.ok THEN "parsed" ELSE "unparsable"))
       /\ GasFinish(IF parsed.ok
                    THEN GasReadAnalysis(parsed.value, request.instruction)
                    ELSE defaultResult(request.instruction))
    /\ UNCHANGED calls
    /\ UNCHANGED notWrite

\* callGemini throws inside callGeminiJson: analyzeChanges_ catches it
GasAnalysisFails ==
    /\ impl = "gas" /\ pc \in {"analysis", "retry"}
    /\ replies' = Append(replies, Reply(NoReplyText, "failed"))
    /\ GasFinish(defaultResult(request.instruction))
    /\ UNCHANGED calls
    /\ UNCHANGED notWrite

-----------------------------------------------------------------------------
(* The add-on's analyzeText and summarizeIntent, run by the same script     *)
(* runtime as writeDocument: pc and calls are those of the running call.    *)

LensesCall == [kind |-> "lenses", retryInstruction |-> FALSE]
LensesRetryCall == [kind |-> "lenses", retryInstruction |-> TRUE]
ProvocationsCall == [kind |-> "provocations", retryInstruction |-> FALSE]
ProvocationsRetryCall == [kind |-> "provocations", retryInstruction |-> TRUE]
IntentCall == [kind |-> "intent", retryInstruction |-> FALSE]

\* generateId('doc'): a fresh id for every row
DocIds == <<"doc-1", "doc-2", "doc-3", "doc-4">>

DocumentRow(id, text) == [id |-> id, text |-> text]

AnalysisRow(docId, l, p) == [documentId |-> docId, lenses |-> l, provocations |-> p]

\* saveDocument: appendRow([id, text, ...]) then saveVersion(text, 'Initial
\* document'), which reads CURRENT_DOC_ID as it is at that moment
saveDocument(docs, sheet, current, id, text) ==
    [documents |-> Append(docs, DocumentRow(id, text)),
     versions |-> saveVersion(sheet, current, text, "Initial document")]

\* getVersions(docId): the rows whose second column is docId
getVersions(sheet, docId) == SelectSeq(sheet, LAMBDA row : row.documentId = docId)

\* callGeminiJson asks a second time when the first response does not parse
RetriesOnParseFailure(position) == position \in {"lenses", "provocations"}

\* the document row of the running analyzeText
RunningDoc == sheetDocuments[Len(sheetDocuments)]

\* analyzeText up to the first request of generateLenses_
analyzeText(text) ==
    /\ impl = "gas" /\ pc = "idle"
    /\ IF text = ""
       THEN /\ response' = ErrorResponse("invalid", 0, "Text is required for analysis")
            /\ pc' = "done"
            /\ UNCHANGED <<calls, sheetDocuments, sheetVersions>>
       ELSE LET saved == saveDocument(sheetDocuments, sheetVersions, currentDocId,
                                      DocIds[Len(sheetDocuments) + 1], text)
            IN  /\ sheetDocuments' = saved.documents
                /\ sheetVersions' = saved.versions
                /\ calls' = Append(calls, LensesCall)
                /\ pc' = "lenses"
                /\ UNCHANGED response
    /\ UNCHANGED <<impl, request, instructionType, evolvedDocument, generation,
                   replies, analysis, currentDocId>>
    /\ UNCHANGED <<sheetAnalysis, lenses, analyzeResults>>
    /\ UNCHANGED notGas

\* generateLenses_ has its lenses (or its fallback): generateProvocations_
\* issues its first request
GasLensesDone(l) ==
    /\ lenses' = l
    /\ calls' = Append(calls, ProvocationsCall)
    /\ pc' = "provocations"
    /\ UNCHANGED <<sheetAnalysis, analyzeResults, currentDocId>>

\* callGeminiJson inside generateLenses_: a response arrives
GasLensesReturns(c) ==
    /\ impl = "gas" /\ pc \in {"lenses", "lensesRetry"}
    /\ LET parsed == JSONParse(StripFences(c)) IN
       IF ~parsed.ok /\ RetriesOnParseFailure(pc)
       THEN /\ calls' = Append(calls, LensesRetryCall)
            /\ pc' = "lensesRetry"
            /\ UNCHANGED <<lenses, sheetAnalysis, analyzeResults, currentDocId>>
       ELSE GasLensesDone(IF parsed.ok /\ parsed.value.kind # "null"
                          THEN "generated" ELSE "fallback")
    /\ UNCHANGED <<impl, request, instructionType, evolvedDocument, generation,
                   replies, analysis, response, sheetVersions, sheetDocuments>>
    /\ UNCHANGED notGas

\* callGemini throws: the catch of generateLenses_ returns the fallback
GasLensesFails ==
    /\ impl = "gas" /\ pc \in {"lenses", "lensesRetry"}
    /\ GasLensesDone("fallback")
    /\ UNCHANGED <<impl, request, instructionType, evolvedDocument, generation,
                   replies, analysis, response, sheetVersions, sheetDocuments>>
    /\ UNCHANGED notGas

\* the tail of analyzeText: saveAnalysis appends its row and only then sets
\* CURRENT_DOC_ID; the result goes back to the sidebar
GasAnalyzeDone(p) ==
    /\ sheetAnalysis' = Append(sheetAnalysis, AnalysisRow(RunningDoc.id, lenses, p))
    /\ currentDocId' = RunningDoc.id
    /\ analyzeResults' = Append(analyzeResults,
                                AnalysisRow(RunningDoc.id, lenses, p))
    /\ pc' = "done"
    /\ UNCHANGED <<calls, lenses>>

GasProvocationsReturns(c) ==
    /\ impl = "gas" /\ pc \in {"provocations", "provocationsRetry"}
    /\ LET parsed == JSONParse(StripFences(c)) IN
       IF ~parsed.ok /\ RetriesOnParseFailure(pc)
       THEN /\ calls' = Append(calls, ProvocationsRetryCall)
            /\ pc' = "provocationsRetry"
            /\ UNCHANGED <<lenses, sheetAnalysis, analyzeResults, currentDocId>>
       ELSE GasAnalyzeDone(IF parsed.ok /\ parsed.value.kind # "null"
                           THEN "generated" ELSE "none")
    /\ UNCHANGED <<impl, request, instructionType, evolvedDocument, generation,
                   replies, analysis, response, sheetVersions, sheetDocuments>>
    /\ UNCHANGED notGas

\* callGemini throws: the catch of generateProvocations_ returns []
GasProvocationsFails ==
    /\ impl = "gas" /\ pc \in {"provocations", "provocationsRetry"}
    /\ GasAnalyzeDone("none")
    /\ UNCHANGED <<impl, request, instructionType, evolvedDocument, generation,
                   replies, analysis, response, sheetVersions, sheetDocuments>>
    /\ UNCHANGED notGas

\* summarizeIntent up to its callGemini
summarizeIntent(transcript) ==
    /\ impl = "gas" /\ pc = "idle"
    /\ request' = [request EXCEPT !.instruction = transcript]
    /\ IF transcript = ""
       THEN /\ response' = ErrorResponse("invalid", 0, "Transcript is required")
            /\ pc' = "done"
            /\ UNCHANGED calls
       ELSE /\ calls' = Append(calls, IntentCall)
            /\ pc' = "intent"
            /\ UNCHANGED response
    /\ UNCHANGED <<impl, instructionType, evolvedDocument, generation,
                   replies, analysis, sheetVersions, currentDocId>>
    /\ UNCHANGED gasVars
    /\ UNCHANGED notGas

\* summary = result.content || transcript
GasIntentReturns(c) ==
    /\ impl = "gas" /\ pc = "intent"
    /\ response' = [NoResponse EXCEPT
                       !.status = "ok",
                       !.summary = StrField(IF extractContent_(c) # ""
                                            THEN extractContent_(c)
                                            ELSE request.instruction)]
    /\ pc' = "done"
    /\ UNCHANGED <<impl, request, instructionType, evolvedDocument, generation,
                   calls, replies, analysis, sheetVersions, currentDocId>>
    /\ UNCHANGED gasVars
    /\ UNCHANGED notGas

\* callGemini throws inside summarizeIntent: nothing catches it
GasIntentFails ==
    /\ impl = "gas" /\ pc = "intent"
    /\ response' = ErrorResponse("error", 0, "Gemini API error")
    /\ pc' = "done"
    /\ UNCHANGED <<impl, request, instructionType, evolvedDocument, generation,
                   calls, replies, analysis, sheetVersions, currentDocId>>
    /\ UNCHANGED gasVars
    /\ UNCHANGED notGas

\* the call has returned to the sidebar; the next google.script.run call
\* starts with fresh locals, the sheets and the user property stay
GasNextCall ==
    /\ impl = "gas" /\ pc = "done"
    /\ pc' = "idle"
    /\ request' = [document |-> "", objective |-> "", instruction |-> ""]
    /\ instructionType' = ""
    /\ evolvedDocument' = ""
    /\ calls' = <<>>
    /\ generation' = [returned |-> FALSE, content |-> NullContent]
    /\ replies' = <<>>
    /\ analysis' = NoAnalysis
    /\ response' = NoResponse
    /\ lenses' = "none"
    /\ UNCHANGED <<impl, sheetVersions, currentDocId, sheetDocuments,
                   sheetAnalysis, analyzeResults>>
    /\ UNCHANGED notGas

-----------------------------------------------------------------------------
(* Inputs of the write handler                                             *)

MaxInstructionOver == 1
MaxChanges == 4
MaxSuggestions == 3

LongInstruction(n) == "shorten " \o Repeat("x", n - 8)

Documents == {"", "a", " a\n"}
Objectives == {"", "goal"}
Instructions ==
    {"", "fix"} \cup
    {LongInstruction(n) :
        n \in (SummaryLimit - 1)..(SummaryLimit + MaxInstructionOver)}

Bodies == [document : Documents, objective : Objectives,
           instruction : Instructions]

GenReplies == {NullContent} \cup {TextContent(t) : t \in {"", "b", " b "}}

RECURSIVE SeqsUpTo(_, _)
SeqsUpTo(S, n) ==
    IF n = 0 THEN {<<>>}
    ELSE SeqsUpTo(S, n - 1) \cup
         {Append(q, x) : q \in {r \in SeqsUpTo(S, n - 1) : Len(r) = n - 1}, x \in S}

\* short arrays of every kind of element, and arrays of up to MaxChanges
\* changes whose types are inside and outside the enum
ChangeArrays ==
    SeqsUpTo({Change("restructured", "moved", ""), Change("deleted", "", "Intro"),
              NullChange}, 2)
    \cup SeqsUpTo({Change("restructured", "moved", ""),
                   Change("deleted", "", "Intro")}, MaxChanges)
    \cup {<<Change(t, "", "")>> : t \in validTypes \cup {""}}

SuggestionArrays == SeqsUpTo({StrItem("s1"), StrItem("s2"), NumItem}, MaxSuggestions)

SummaryFields == {AbsentField, StrField(""), StrField("Reworded"), NumField("7")}

JsonValues ==
    {JsonNull, JsonPrimitive}
    \cup {JsonObject(f, NotArray, NotArray) : f \in SummaryFields}
    \cup {JsonObject(StrField("Reworded"), Array(c), NotArray) : c \in ChangeArrays}
    \cup {JsonObject(AbsentField, NotArray, Array(g)) : g \in SuggestionArrays}
    \cup {JsonObject(StrField("Reworded"), Array(c), Array(g)) :
             c \in {a \in ChangeArrays :
                      Len(a) = MaxChanges /\ \A n \in 1..Len(a) : ~a[n].isNull},
             g \in {b \in SuggestionArrays :
                      Len(b) = MaxSuggestions /\ \A n \in 1..Len(b) : b[n] = StrItem("s1")}}
    \cup {JsonObject(StrField("Reworded"), Array(<<NullChange>>),
                     Array(<<StrItem("s1")>>)),
          JsonObject(NumField("7"), Array(<<Change("added", "x", "")>>),
                     Array(<<StrItem("s1")>>))}

AnalysisReplies ==
    {AnalysisText(k, JsonNull) : k \in {"null", "empty", "garbage"}}
    \cup {AnalysisText(k, v) : k \in {"json", "fenced"}, v \in JsonValues}

WriteInit ==
    /\ impl \in Impls
    /\ pc = "idle"
    /\ request = [document |-> "", objective |-> "", instruction |-> ""]
    /\ instructionType = ""
    /\ evolvedDocument = ""
    /\ calls = <<>>
    /\ generation = [returned |-> FALSE, content |-> NullContent]
    /\ replies = <<>>
    /\ analysis = NoAnalysis
    /\ response = NoResponse
    /\ sheetVersions = <<>>
    /\ currentDocId = ""

WriteNext ==
    \/ \E body \in Bodies : WebReceive(body)
    \/ \E c \in GenReplies : WebGenerateReturns(c)
    \/ WebCallFails
    \/ \E c \in AnalysisReplies : WebAnalysisReturns(c)
    \/ \E body \in Bodies : GasReceive(body)
    \/ \E c \in GenReplies : GasGenerateReturns(c)
    \/ GasGenerateFails
    \/ \E c \in AnalysisReplies : GasAnalysisReturns(c)
    \/ \E c \in AnalysisReplies : GasRetryReturns(c)
    \/ GasAnalysisFails

-----------------------------------------------------------------------------
(* The web client: Workspace component                                     *)

HistoryLimit == 10

NoDocument == [isNull |-> TRUE, rawText |-> ""]
Doc(t) == [isNull |-> FALSE, rawText |-> t]

DocumentVersion(text, description) == [text |-> text, description |-> description]

\* Mutant: the analysis leaves the list as it found it, without a seed.
InitialVersions_none(text) == <<>>

\* setVersions([initialVersion])
InitialVersions(text) == <<DocumentVersion(text, "Original document")>>

\* Mutant: the new version is put in front.
AppendVersion_front(prev, newVersion) == <<newVersion>> \o prev

\* setVersions(prev => [...prev, newVersion])
AppendVersion(prev, newVersion) == Append(prev, newVersion)

\* a || b on strings
Or(a, b) == IF a # "" THEN a ELSE b

RemoveAt(seq, k) == SubSeq(seq, 1, k - 1) \o SubSeq(seq, k + 1, Len(seq))

\* Array.prototype.slice(-n)
SliceLast(seq, n) == SubSeq(seq, Max(1, Len(seq) - n + 1), Len(seq))

\* Mutant: the window keeps one entry too many.
KeepHistory_offByOne(history, entry) ==
    Append(SliceLast(history, HistoryLimit), entry)

\* [...prev.slice(-9), historyEntry]
KeepHistory(history, entry) ==
    Append(SliceLast(history, HistoryLimit - 1), entry)

\* what POST /api/write can answer to `body`: the outcomes of the handler
\* above for the generation contents `gens` and analysis results `ans`
WriteOutcomes(body, gens, ans) ==
    IF ~WebValid(body) THEN {ErrorResponse("error", 400, "Invalid request")}
    ELSE LET type == classifyInstruction("web", body.instruction) IN
         {ErrorResponse("error", 500, "Failed to evolve document")}
         \cup {OkResponse(type, IF Truthy(c) THEN c.text ELSE body.document, an) :
                 c \in gens, an \in ans \cup {defaultResult(body.instruction)}}

\* ---- derived values of a render ------------------------------------------
canShowDiff == Len(versions) >= 2

NoVersion == [isNull |-> TRUE, text |-> "", description |-> ""]
SomeVersion(v) == [isNull |-> FALSE, text |-> v.text, description |-> v.description]

\* Mutant: the first version is taken as the previous one.
previousVersion_first ==
    IF Len(versions) >= 1 THEN SomeVersion(versions[1]) ELSE NoVersion

previousVersion ==
    IF Len(versions) >= 2 THEN SomeVersion(versions[Len(versions) - 1]) ELSE NoVersion

currentVersion ==
    IF Len(versions) >= 1 THEN SomeVersion(versions[Len(versions)]) ELSE NoVersion

\* the "Versions (n)" button is in the header
DiffOffered == phase = "workspace" /\ canShowDiff

\* showDiffView && previousVersion && currentVersion ? <DiffView .../> : <ReadingPane .../>
DiffRendered ==
    /\ phase = "workspace"
    /\ showDiffView /\ ~previousVersion.isNull /\ ~currentVersion.isNull

ReadingPaneRendered == phase = "workspace" /\ ~DiffRendered

\* isPending of a useMutation: its latest mutation has not settled
IsPending(inFlight) == \E k \in 1..Len(inFlight) : inFlight[k].current

\* a new mutate() supersedes the mutations in flight: a superseded mutation
\* keeps the callbacks of the render in which it was superseded
Supersede(inFlight) ==
    [k \in 1..Len(inFlight) |->
        IF inFlight[k].current
        THEN [inFlight[k] EXCEPT !.current = FALSE, !.closure = document]
        ELSE inFlight[k]]

\* the same for callbacks that read no state
Superseded(inFlight) ==
    [k \in 1..Len(inFlight) |-> [inFlight[k] EXCEPT !.current = FALSE]]

\* ReadingPane keeps isProcessingEdit in its own state: when the pane is
\* unmounted (the diff view or another screen takes its place) the next pane
\* starts with isProcessingEdit = false
Remount(edits) ==
    IF ReadingPaneRendered /\ ReadingPaneRendered' THEN edits ELSE Superseded(edits)

InFlight == Len(analyzing) + Len(writing) + Len(editing)

ClientInit ==
    /\ phase = "input"
    /\ document = NoDocument
    /\ versions = <<>>
    /\ showDiffView = FALSE
    /\ editHistory = <<>>
    /\ analyzing = <<>>
    /\ writing = <<>>
    /\ editing = <<>>
    /\ writeLog = <<>>

\* a mutation of analyzeMutation / writeMutation in flight
Mutation(body, description) ==
    [body |-> body, description |-> description, current |-> TRUE,
     closure |-> NoDocument]

\* state `objective` is given a non-empty text by handleAnalyze and
\* handleBlankDocumentTranscript before the first write can be made
ClientObjective == "goal"

\* TextInputForm: onSubmit(text.trim(), ...), the button being disabled while
\* !text.trim() || isLoading
handleAnalyze(text) ==
    /\ phase = "input" /\ ~IsPending(analyzing)
    /\ Trim(text) # ""
    /\ analyzing' = Append(Superseded(analyzing), Mutation(Trim(text), ""))
    /\ UNCHANGED <<phase, document, versions, showDiffView, editHistory,
                   writing, editing, writeLog>>
    /\ UNCHANGED notClient

handleBlankDocument ==
    /\ phase = "input" /\ ~IsPending(analyzing)
    /\ phase' = "blank-document"
    /\ UNCHANGED <<document, versions, showDiffView, editHistory, analyzing,
                   writing, editing, writeLog>>
    /\ UNCHANGED notClient

handleBlankDocumentTranscript(transcript) ==
    /\ phase = "blank-document"
    /\ Trim(transcript) # ""
    /\ analyzing' = Append(Superseded(analyzing), Mutation(transcript, ""))
    /\ UNCHANGED <<phase, document, versions, showDiffView, editHistory,
                   writing, editing, writeLog>>
    /\ UNCHANGED notClient

\* a provocation of the analysis, as far as the handlers below read it
Provocation(id, title, status) == [id |-> id, title |-> title, status |-> status]

\* data.provocations of POST /api/analyze: every provocation is pending
AnalysedProvocations ==
    <<Provocation("p1", "Risk", "pending"), Provocation("p2", "Cost", "pending")>>

\* analyzeMutation.onSuccess: POST /api/analyze answered with the stored
\* document, whose rawText is the text sent
AnalyzeSuccess(k) ==
    /\ k \in 1..Len(analyzing)
    /\ document' = Doc(analyzing[k].body)
    /\ phase' = "workspace"
    /\ versions' = InitialVersions(analyzing[k].body)
    /\ analyzing' = RemoveAt(analyzing, k)
    /\ UNCHANGED <<showDiffView, editHistory, writing, writeLog>>
    /\ editing' = Remount(editing)
    /\ provocations' = AnalysedProvocations
    /\ UNCHANGED <<outline, now>>
    /\ UNCHANGED notWorkspace

\* analyzeMutation.onError: a toast only
AnalyzeError(k) ==
    /\ k \in 1..Len(analyzing)
    /\ analyzing' = RemoveAt(analyzing, k)
    /\ UNCHANGED <<phase, document, versions, showDiffView, editHistory,
                   writing, editing, writeLog>>
    /\ UNCHANGED notClient

\* "Back" of the blank-document screen and "New" of the workspace header
handleReset ==
    /\ phase \in {"blank-document", "workspace"}
    /\ phase' = "input"
    /\ document' = NoDocument
    /\ versions' = <<>>
    /\ showDiffView' = FALSE
    /\ editHistory' = <<>>
    /\ writeLog' = <<>>
    /\ UNCHANGED <<analyzing, writing>>
    /\ editing' = Remount(editing)
    /\ outline' = <<>>
    /\ provocations' = <<>>
    /\ UNCHANGED now
    /\ UNCHANGED notWorkspace

\* ReadingPane edit mode and dictation: onTextChange(newText)
handleDocumentTextChange(newText) ==
    /\ ReadingPaneRendered
    /\ document' = IF ~document.isNull THEN Doc(newText) ELSE document
    /\ UNCHANGED <<phase, versions, showDiffView, editHistory, analyzing,
                   writing, editing, writeLog>>
    /\ UNCHANGED notClient

toggleDiffView ==
    /\ DiffOffered
    /\ showDiffView' = ~showDiffView
    /\ UNCHANGED <<phase, document, versions, editHistory, analyzing, writing,
                   writeLog>>
    /\ editing' = Remount(editing)
    /\ UNCHANGED notClient

\* handleSelectionVoiceMerge -> writeMutation.mutate; mutationFn posts
\* document.rawText with the instruction. The record buttons are disabled
\* while a write is pending, the handler itself does not look at isPending.
handleSelectionVoiceMerge(transcript) ==
    /\ ReadingPaneRendered
    /\ ~document.isNull /\ Trim(transcript) # ""
    /\ writing' = Append(Supersede(writing),
                         Mutation([document |-> document.rawText,
                                   objective |-> ClientObjective,
                                   instruction |-> transcript],
                                  "Voice edit on selection"))
    /\ UNCHANGED <<phase, document, versions, showDiffView, editHistory,
                   analyzing, editing, writeLog>>
    /\ UNCHANGED notClient

\* prev.map((p) => (p.id === id ? { ...p, status } : p))
SetStatus(prev, id, status) ==
    [i \in 1..Len(prev) |->
        IF prev[i].id = id THEN [prev[i] EXCEPT !.status = status] ELSE prev[i]]

\* the buttons Highlight, Addressed and Dismiss of a pending provocation
handleUpdateProvocationStatus(id, status) ==
    /\ phase = "workspace"
    /\ \E i \in 1..Len(provocations) :
          provocations[i].id = id /\ provocations[i].status = "pending"
    /\ provocations' = SetStatus(provocations, id, status)
    /\ UNCHANGED <<outline, now>>
    /\ UNCHANGED clientVars
    /\ UNCHANGED notWorkspace

\* the voice recorder of a pending provocation: writeMutation.mutate with
\* the transcript as the instruction, then the provocation is marked
\* addressed, in the same call
handleVoiceResponse(provocationId, transcript, provocationData) ==
    /\ phase = "workspace"
    /\ \E i \in 1..Len(provocations) :
          /\ provocations[i].id = provocationId
          /\ provocations[i].status = "pending"
          /\ provocations[i].title = provocationData.title
    /\ IF document.isNull \/ Trim(transcript) = ""
       THEN UNCHANGED <<writing, provocations>>
       ELSE /\ writing' = Append(Supersede(writing),
                                 Mutation([document |-> document.rawText,
                                           objective |-> ClientObjective,
                                           instruction |-> transcript],
                                          "Addressed provocation: " \o provocationData.title))
            /\ provocations' = SetStatus(provocations, provocationId, "addressed")
    /\ UNCHANGED <<phase, document, versions, showDiffView, editHistory,
                   analyzing, editing, writeLog>>
    /\ UNCHANGED <<outline, now>>
    /\ UNCHANGED notWorkspace

\* Mutant: the callbacks of a superseded mutation are not run (as for the
\* callbacks handed to mutate() itself).
ClosureDocument_dropped(m) == IF m.current THEN document ELSE NoDocument

\* the `document` the onSuccess of mutation m closes over
ClosureDocument(m) == IF m.current THEN document ELSE m.closure

EditHistoryEntry(instruction, data) ==
    [instruction |-> instruction,
     instructionType |-> Or(data.instructionType, "general"),
     summary |-> Or(data.summary.text, "Document updated")]

\* writeMutation.onSuccess(data, variables)
WriteSuccess(k, data) ==
    /\ k \in 1..Len(writing)
    /\ data.status = "ok"
    /\ LET m == writing[k]
           entry == EditHistoryEntry(m.body.instruction, data)
       IN  IF ~ClosureDocument(m).isNull
           THEN /\ versions' = AppendVersion(versions,
                       DocumentVersion(data.document,
                           Or(m.description, Or(data.summary.text, "Document updated"))))
                /\ document' = Doc(data.document)
                /\ editHistory' = KeepHistory(editHistory, entry)
                /\ writeLog' = Append(writeLog, entry)
           ELSE UNCHANGED <<versions, document, editHistory, writeLog>>
    /\ writing' = RemoveAt(writing, k)
    /\ UNCHANGED <<phase, showDiffView, analyzing>>
    /\ editing' = Remount(editing)
    /\ UNCHANGED notClient

\* writeMutation.onError: transcript summary and a toast only
WriteError(k) ==
    /\ k \in 1..Len(writing)
    /\ writing' = RemoveAt(writing, k)
    /\ UNCHANGED <<phase, document, versions, showDiffView, editHistory,
                   analyzing, editing, writeLog>>
    /\ UNCHANGED notClient

\* ReadingPane.handleSubmitEdit up to its await: POST /api/write with the
\* pane's text; onTextEdit is the handleTextEdit of this render. The prompt
\* is disabled while the pane's isProcessingEdit is set.
handleSubmitEdit(promptText) ==
    /\ ReadingPaneRendered
    /\ Trim(promptText) # ""
    /\ \A k \in 1..Len(editing) : ~editing[k].current
    /\ editing' = Append(editing,
                         [Mutation([document |-> document.rawText,
                                    objective |-> "Edit the document according to the user's instruction",
                                    instruction |-> Trim(promptText)],
                                   "After text edit")
                            EXCEPT !.closure = document])
    /\ UNCHANGED <<phase, document, versions, showDiffView, editHistory,
                   analyzing, writing, writeLog>>
    /\ UNCHANGED notClient

\* handleSubmitEdit after the await: if (data.document) onTextEdit(data.document),
\* and handleTextEdit(newText) == if (document) { append a version; set the text }
handleTextEdit(k, data) ==
    /\ k \in 1..Len(editing)
    /\ data.status = "ok"
    /\ IF data.document # "" /\ ~editing[k].closure.isNull
       THEN /\ versions' = AppendVersion(versions,
                                  DocumentVersion(data.document, editing[k].description))
            /\ document' = Doc(data.document)
       ELSE UNCHANGED <<versions, document>>
    /\ UNCHANGED <<phase, showDiffView, editHistory, analyzing, writing, writeLog>>
    /\ editing' = Remount(RemoveAt(editing, k))
    /\ UNCHANGED notClient

\* handleSubmitEdit's catch: a toast only
EditFails(k) ==
    /\ k \in 1..Len(editing)
    /\ editing' = RemoveAt(editing, k)
    /\ UNCHANGED <<phase, document, versions, showDiffView, editHistory,
                   analyzing, writing, writeLog>>
    /\ UNCHANGED notClient

\* ---- inputs of the client -------------------------------------------------
MaxVersions == 3
MaxInFlight == 2

ClientTexts == {" b "}
ClientTranscripts == {"fix it", " "}
ClientGenerations == {NullContent, TextContent(" c")}
ClientAnalyses == {}

\* the versions held plus the responses that can still add one
Room == Len(versions) + Len(writing) + Len(editing) < MaxVersions

ClientNext ==
    \/ \E t \in ClientTexts : InFlight < MaxInFlight /\ handleAnalyze(t)
    \/ handleBlankDocument
    \/ \E t \in ClientTexts :
          InFlight < MaxInFlight /\ handleBlankDocumentTranscript(t)
    \/ \E k \in 1..Len(analyzing) : AnalyzeSuccess(k)
    \/ \E k \in 1..Len(analyzing) : AnalyzeError(k)
    \/ handleReset
    \/ \E t \in ClientTexts : handleDocumentTextChange(t)
    \/ toggleDiffView
    \/ \E t \in ClientTranscripts :
          InFlight < MaxInFlight /\ Room /\ handleSelectionVoiceMerge(t)
    \/ \E k \in 1..Len(writing) :
          \E data \in WriteOutcomes(writing[k].body, ClientGenerations, ClientAnalyses) :
             WriteSuccess(k, data)
    \/ \E k \in 1..Len(writing) : WriteError(k)
    \/ \E t \in ClientTranscripts :
          InFlight < MaxInFlight /\ Room /\ handleSubmitEdit(t)
    \/ \E k \in 1..Len(editing) :
          \E data \in WriteOutcomes(editing[k].body, ClientGenerations, ClientAnalyses) :
             handleTextEdit(k, data)
    \/ \E k \in 1..Len(editing) : EditFails(k)

\* ---- writes in flight together: voice writes and prompt edits, answered in
\* any order, with a reset possible at any moment -------------------------
ConcurrentNext ==
    \/ \E t \in ClientTexts : InFlight = 0 /\ handleAnalyze(t)
    \/ \E k \in 1..Len(analyzing) : AnalyzeSuccess(k)
    \/ handleReset
    \/ \E t \in ClientTranscripts :
          InFlight < MaxInFlight /\ Room /\ handleSelectionVoiceMerge(t)
    \/ \E k \in 1..Len(writing) :
          \E data \in WriteOutcomes(writing[k].body, ClientGenerations, ClientAnalyses) :
             WriteSuccess(k, data)
    \/ \E k \in 1..Len(writing) : WriteError(k)
    \/ \E t \in ClientTranscripts :
          InFlight < MaxInFlight /\ Room /\ handleSubmitEdit(t)
    \/ \E k \in 1..Len(editing) :
          \E data \in WriteOutcomes(editing[k].body, ClientGenerations, ClientAnalyses) :
             handleTextEdit(k, data)
    \/ \E k \in 1..Len(editing) : EditFails(k)

\* ---- a session of voice writes, long enough to fill the edit history ------
MaxWrites == 12

HistoryTranscripts == {"fix it", "Shorten"}

HistoryNext ==
    \/ InFlight = 0 /\ handleAnalyze("a")
    \/ \E k \in 1..Len(analyzing) : AnalyzeSuccess(k)
    \/ \E t \in HistoryTranscripts :
          InFlight = 0 /\ Len(writeLog) < MaxWrites /\ handleSelectionVoiceMerge(t)
    \/ \E k \in 1..Len(writing) :
          \E data \in WriteOutcomes(writing[k].body, {TextContent("c")}, {}) :
             WriteSuccess(k, data)
    \/ \E k \in 1..Len(writing) : WriteError(k)
    \/ handleReset

\* ---- one write of a session, from the client through the server and back --
SessionTexts == {"a", " b "}

SessionTranscripts == {"fix it", "Shorten"}

SessionReplies ==
    {AnalysisText("garbage", JsonNull),
     AnalysisText("json", JsonObject(AbsentField, NotArray, NotArray)),
     AnalysisText("json", JsonObject(StrField("Reworded"), NotArray, NotArray))}

\* apiRequest("POST", "/api/write", ...) of the pending mutation reaches the
\* handler
SessionReceive ==
    /\ Len(writing) = 1
    /\ WebReceive(writing[1].body)

\* response.json() resolves: writeMutation.onSuccess
SessionSuccess ==
    /\ pc = "done" /\ response.status = "ok"
    /\ WriteSuccess(1, response)

\* apiRequest throws on a response that is not ok: writeMutation.onError
SessionError ==
    /\ pc = "done" /\ response.status # "ok"
    /\ WriteError(1)

SessionNext ==
    \/ \E text \in SessionTexts : InFlight = 0 /\ handleAnalyze(text)
    \/ AnalyzeSuccess(1)
    \/ \E t \in SessionTranscripts :
          InFlight = 0 /\ pc = "idle" /\ handleSelectionVoiceMerge(t)
    \/ SessionReceive
    \/ \E c \in GenReplies : WebGenerateReturns(c)
    \/ WebCallFails
    \/ \E c \in SessionReplies : WebAnalysisReturns(c)
    \/ SessionSuccess
    \/ SessionError

\* ---- typing into the document between the requests of a session ---------
MaxTextLen == 3

\* what a keystroke in the textarea of ReadingPane adds to its text
TypedSuffixes == {"x", "y"}

\* handleTextChange: e.target.value of the always editable textarea
Typing(suffix) ==
    /\ Len(document.rawText) < MaxTextLen
    /\ handleDocumentTextChange(document.rawText \o suffix)

TypingNext ==
    \/ InFlight = 0 /\ handleAnalyze("a")
    \/ \E k \in 1..Len(analyzing) : AnalyzeSuccess(k)
    \/ \E suffix \in TypedSuffixes : Typing(suffix)
    \/ \E t \in ClientTranscripts :
          InFlight = 0 /\ Room /\ handleSelectionVoiceMerge(t)
    \/ \E k \in 1..Len(writing) :
          \E data \in WriteOutcomes(writing[k].body, ClientGenerations, ClientAnalyses) :
             WriteSuccess(k, data)
    \/ \E k \in 1..Len(writing) : WriteError(k)
    \/ \E t \in ClientTranscripts :
          InFlight = 0 /\ Room /\ handleSubmitEdit(t)
    \/ \E k \in 1..Len(editing) :
          \E data \in WriteOutcomes(editing[k].body, ClientGenerations, ClientAnalyses) :
             handleTextEdit(k, data)
    \/ \E k \in 1..Len(editing) : EditFails(k)
    \/ handleReset

\* ---- sessions started by voice from the blank-document screen: with no
\* text submitted on the input screen, whatever is in flight while the input
\* screen shows was issued before the reset that led there ----------------
ResetNext ==
    \/ handleBlankDocument
    \/ \E t \in ClientTexts :
          InFlight < MaxInFlight /\ handleBlankDocumentTranscript(t)
    \/ \E k \in 1..Len(analyzing) : AnalyzeSuccess(k)
    \/ \E k \in 1..Len(analyzing) : AnalyzeError(k)
    \/ \E t \in ClientTranscripts :
          InFlight < MaxInFlight /\ Room /\ handleSelectionVoiceMerge(t)
    \/ \E k \in 1..Len(writing) :
          \E data \in WriteOutcomes(writing[k].body, ClientGenerations, ClientAnalyses) :
             WriteSuccess(k, data)
    \/ \E k \in 1..Len(writing) : WriteError(k)
    \/ \E t \in ClientTranscripts :
          InFlight < MaxInFlight /\ Room /\ handleSubmitEdit(t)
    \/ \E k \in 1..Len(editing) :
          \E data \in WriteOutcomes(editing[k].body, ClientGenerations, ClientAnalyses) :
             handleTextEdit(k, data)
    \/ \E k \in 1..Len(editing) : EditFails(k)
    \/ handleReset

\* ---- provocations answered by voice or by the buttons --------------------
Statuses == {"highlighted", "addressed", "rejected"}

VoiceNext ==
    \/ InFlight = 0 /\ handleAnalyze("a")
    \/ \E k \in 1..Len(analyzing) : AnalyzeSuccess(k)
    \/ \E i \in 1..Len(provocations) : \E status \in Statuses :
          handleUpdateProvocationStatus(provocations[i].id, status)
    \/ \E i \in 1..Len(provocations) : \E t \in ClientTranscripts :
          /\ InFlight < MaxInFlight /\ Room
          /\ handleVoiceResponse(provocations[i].id, t, provocations[i])
    \/ \E k \in 1..Len(writing) :
          \E data \in WriteOutcomes(writing[k].body, ClientGenerations, ClientAnalyses) :
             WriteSuccess(k, data)
    \/ \E k \in 1..Len(writing) : WriteError(k)
    \/ handleReset

-----------------------------------------------------------------------------
(* Inputs of the add-on's calls                                            *)

MaxDocs == 2
MaxRows == 3

AnalyzeTexts == {"", "a", "b"}

GasJsonReplies ==
    {AnalysisText("garbage", JsonNull),
     AnalysisText("json", JsonNull),
     AnalysisText("fenced", JsonObject(AbsentField, NotArray, NotArray))}

GasBodies ==
    {[document |-> d, objective |-> "", instruction |-> "fix"] : d \in {"", "a"}}

GasGenerations == {NullContent, TextContent("c")}

GasTranscripts == {"", "um fix it"}

GasInit ==
    /\ sheetDocuments = <<>>
    /\ sheetAnalysis = <<>>
    /\ lenses = "none"
    /\ analyzeResults = <<>>

GasNext ==
    \/ \E text \in AnalyzeTexts :
          Len(sheetDocuments) < MaxDocs /\ Len(sheetVersions) < MaxRows
          /\ analyzeText(text)
    \/ \E c \in GasJsonReplies : GasLensesReturns(c)
    \/ GasLensesFails
    \/ \E c \in GasJsonReplies : GasProvocationsReturns(c)
    \/ GasProvocationsFails
    \/ \E t \in GasTranscripts : summarizeIntent(t)
    \/ \E c \in GasGenerations : GasIntentReturns(c)
    \/ GasIntentFails
    \/ \E body \in GasBodies : Len(sheetVersions) < MaxRows /\ GasReceive(body)
    \/ \E c \in GasGenerations : GasGenerateReturns(c)
    \/ GasGenerateFails
    \/ \E c \in SessionReplies : GasAnalysisReturns(c)
    \/ \E c \in SessionReplies : GasRetryReturns(c)
    \/ GasAnalysisFails
    \/ GasNextCall

-----------------------------------------------------------------------------
(* DiffView: the line diff between two versions                            *)

\* Mutant: the text is never split.
Split_whole(t) == <<t>>

\* String.prototype.split("\n"): the pieces between the line feeds, so a
\* text without one is a single line and the empty text is one empty line.
RECURSIVE Split(_)
Split(t) ==
    IF ~Includes(t, "\n") THEN <<t>>
    ELSE LET i == CHOOSE x \in Occurrences(t, "\n") :
                     \A y \in Occurrences(t, "\n") : x <= y
         IN  <<SubSeq(t, 1, i - 1)>> \o Split(SubSeq(t, i + 1, Len(t)))

DiffLine(type, content) == [type |-> type, content |-> content]

\* oldLine === newLine
SameLine_never(a, b) == FALSE

SameLine(a, b) == a = b

\* new Set(lines).has(line)
Has_always(lines, line) == TRUE

Has_never(lines, line) == FALSE

Has(lines, line) == \E k \in 1..Len(lines) : lines[k] = line

\* The while loop of computeDiff; oi and ni are oldIdx and newIdx, 1-based
\* here.
RECURSIVE DiffLoop(_, _, _, _)
DiffLoop(oldLines, newLines, oi, ni) ==
    IF ~(oi <= Len(oldLines) \/ ni <= Len(newLines)) THEN <<>>
    ELSE IF oi > Len(oldLines)
    THEN <<DiffLine("added", newLines[ni])>>
         \o DiffLoop(oldLines, newLines, oi, ni + 1)
    ELSE IF ni > Len(newLines)
    THEN <<DiffLine("removed", oldLines[oi])>>
         \o DiffLoop(oldLines, newLines, oi + 1, ni)
    ELSE IF SameLine(oldLines[oi], newLines[ni])
    THEN <<DiffLine("unchanged", oldLines[oi])>>
         \o DiffLoop(oldLines, newLines, oi + 1, ni + 1)
    ELSE IF ~Has(newLines, oldLines[oi])
    THEN <<DiffLine("removed", oldLines[oi])>>
         \o DiffLoop(oldLines, newLines, oi + 1, ni)
    ELSE IF ~Has(oldLines, newLines[ni])
    THEN <<DiffLine("added", newLines[ni])>>
         \o DiffLoop(oldLines, newLines, oi, ni + 1)
    ELSE <<DiffLine("removed", oldLines[oi]),
           DiffLine("added", newLines[ni])>>
         \o DiffLoop(oldLines, newLines, oi + 1, ni + 1)

computeDiff(oldText, newText) ==
    DiffLoop(Split(oldText), Split(newText), 1, 1)

\* Texts of one to MaxLines lines; "" is the empty line, so "A\n" and the
\* empty text are among them.
MaxLines == 3

OldSampleLines == {"", "A", "B", "C"}
NewSampleLines == {"", "A", "B2", "C"}

LineSeqs(sample) == UNION {[1..n -> sample] : n \in 1..MaxLines}

RECURSIVE JoinLines(_)
JoinLines(lines) ==
    IF Len(lines) = 1 THEN lines[1]
    ELSE lines[1] \o "\n" \o JoinLines(Tail(lines))

DiffTexts(sample) == {JoinLines(lines) : lines \in LineSeqs(sample)}

DiffInit ==
    /\ diffOld \in DiffTexts(OldSampleLines)
    /\ diffNew \in DiffTexts(NewSampleLines)
    /\ diffLines = <<>>
    /\ oldIdx = 1 /\ newIdx = 1 /\ result = <<>>

\* DiffView renders: diffLines = computeDiff(previous text, current text)
RenderDiff ==
    /\ diffLines = <<>>
    /\ diffLines' = computeDiff(diffOld, diffNew)
    /\ UNCHANGED <<diffOld, diffNew, oldIdx, newIdx, result>>
    /\ UNCHANGED notDiff

\* computeDiff run one iteration at a time.  The state of the loop is its
\* three locals; oldLines and newLines are the split texts.
LoopState(o, n, r) == [oldIdx |-> o, newIdx |-> n, result |-> r]

\* Mutant: in the last branch only the old cursor advances.
DiffIteration_pairKeepsNew(oldLines, newLines, st) ==
    LET o == st.oldIdx
        n == st.newIdx
        push(type, content) == st.result \o <<DiffLine(type, content)>>
    IN  IF o > Len(oldLines)
        THEN LoopState(o, n + 1, push("added", newLines[n]))
        ELSE IF n > Len(newLines)
        THEN LoopState(o + 1, n, push("removed", oldLines[o]))
        ELSE IF SameLine(oldLines[o], newLines[n])
        THEN LoopState(o + 1, n + 1, push("unchanged", oldLines[o]))
        ELSE IF ~Has(newLines, oldLines[o])
        THEN LoopState(o + 1, n, push("removed", oldLines[o]))
        ELSE IF ~Has(oldLines, newLines[n])
        THEN LoopState(o, n + 1, push("added", newLines[n]))
        ELSE LoopState(o + 1, n,
                       st.result \o <<DiffLine("removed", oldLines[o]),
                                      DiffLine("added", newLines[n])>>)

\* The body of the while loop.
DiffIteration(oldLines, newLines, st) ==
    LET o == st.oldIdx
        n == st.newIdx
        push(type, content) == st.result \o <<DiffLine(type, content)>>
    IN  IF o > Len(oldLines)
        THEN LoopState(o, n + 1, push("added", newLines[n]))
        ELSE IF n > Len(newLines)
        THEN LoopState(o + 1, n, push("removed", oldLines[o]))
        ELSE IF SameLine(oldLines[o], newLines[n])
        THEN LoopState(o + 1, n + 1, push("unchanged", oldLines[o]))
        ELSE IF ~Has(newLines, oldLines[o])
        THEN LoopState(o + 1, n, push("removed", oldLines[o]))
        ELSE IF ~Has(oldLines, newLines[n])
        THEN LoopState(o, n + 1, push("added", newLines[n]))
        ELSE LoopState(o + 1, n + 1,
                       st.result \o <<DiffLine("removed", oldLines[o]),
                                      DiffLine("added", newLines[n])>>)

\* while (oldIdx < oldLines.length || newIdx < newLines.length)
LoopRuns ==
    \/ oldIdx <= Len(Split(diffOld))
    \/ newIdx <= Len(Split(diffNew))

DiffIterate ==
    /\ diffLines = <<>>
    /\ LoopRuns
    /\ LET st == DiffIteration(Split(diffOld), Split(diffNew),
                               LoopState(oldIdx, newIdx, result))
       IN  /\ oldIdx' = st.oldIdx
           /\ newIdx' = st.newIdx
           /\ result' = st.result
    /\ UNCHANGED <<diffOld, diffNew, diffLines>>
    /\ UNCHANGED notDiff

\* return result
DiffReturn ==
    /\ diffLines = <<>>
    /\ ~LoopRuns
    /\ diffLines' = result
    /\ UNCHANGED <<diffOld, diffNew, oldIdx, newIdx, result>>
    /\ UNCHANGED notDiff

\* Texts of the stepwise run: "" occurs in old texts only, "C" in new ones
\* only, "A" and "B" on both sides.
LoopOldLines == {"", "A", "B"}
LoopNewLines == {"A", "B", "C"}

DiffLoopInit ==
    /\ diffOld \in DiffTexts(LoopOldLines)
    /\ diffNew \in DiffTexts(LoopNewLines)
    /\ diffLines = <<>>
    /\ oldIdx = 1 /\ newIdx = 1 /\ result = <<>>

-----------------------------------------------------------------------------
(* Access control of the add-on: AccessControl.gs, Setup.gs and the server  *)
(* functions a client page reaches through google.script.run.  The         *)
(* AccessLog tab and the lastAccess column are written and never read by   *)
(* these functions; they are left out.                                     *)

ALLOWED_DOMAIN == "salesforce.com"

EndsWith(t, suffix) ==
    Len(t) >= Len(suffix) /\ SubSeq(t, Len(t) - Len(suffix) + 1, Len(t)) = suffix

\* email.endsWith('@' + ALLOWED_DOMAIN)
InDomain(email) == EndsWith(email, "@" \o ALLOWED_DOMAIN)

\* Session.getActiveUser().getEmail().toLowerCase()
ActiveEmail(user) == ToLowerCase(user)

\* The admin spreadsheet: whether the script property names one, the rows
\* of its InvitedUsers tab below the header, whether the header has the
\* role column, and admin_email of its AppConfig tab.
NoAdminSheet ==
    [exists |-> FALSE, users |-> <<>>, roleColumn |-> FALSE, adminEmail |-> ""]

UserRow(email, status, role) == [email |-> email, status |-> status, role |-> role]

\* index of the first row of the e-mail, 0 when there is none
RowOf(sheet, email) ==
    IF \E k \in 1..Len(sheet.users) : sheet.users[k].email = email
    THEN CHOOSE k \in 1..Len(sheet.users) :
            /\ sheet.users[k].email = email
            /\ \A j \in 1..(k - 1) : sheet.users[j].email # email
    ELSE 0

AccessResult(authorized, email, reason) ==
    [authorized |-> authorized, email |-> email, reason |-> reason]

checkAccess(sheet, user) ==
    LET email == ActiveEmail(user)
        k == RowOf(sheet, email)
    IN  IF ~InDomain(email) THEN AccessResult(FALSE, email, "domain_rejected")
        ELSE IF ~sheet.exists THEN AccessResult(TRUE, email, "ok")
        ELSE IF k = 0 THEN AccessResult(FALSE, email, "not_invited")
        ELSE IF sheet.users[k].status = "revoked"
        THEN AccessResult(FALSE, email, "access_revoked")
        ELSE AccessResult(TRUE, email, "ok")

isAdmin(sheet, user) ==
    LET k == RowOf(sheet, ActiveEmail(user))
    IN  /\ sheet.exists
        /\ sheet.roleColumn
        /\ k # 0
        /\ sheet.users[k].role = "admin"

\* enforceAccess() returns; enforceAdmin() returns
AccessPasses(sheet, user) == checkAccess(sheet, user).authorized
AdminPasses(sheet, user) == AccessPasses(sheet, user) /\ isAdmin(sheet, user)

Call(fn, user, outcome) ==
    [fn |-> fn, email |-> ActiveEmail(user), outcome |-> outcome,
     authorized |-> checkAccess(adminSheet, user).authorized]

NoCall == [fn |-> "", email |-> "", outcome |-> "", authorized |-> FALSE]

AccInit ==
    /\ adminSheet = NoAdminSheet
    /\ geminiModel = ""
    /\ docContent = "draft"
    /\ invitations = {}
    /\ lastCall = NoCall

\* setupAdmin: the sheet is created with a header without the role column
\* and the caller as the first invited user
setupAdmin(user) ==
    /\ IF ~InDomain(ActiveEmail(user))
       THEN /\ lastCall' = Call("setupAdmin", user, "threw")
            /\ UNCHANGED <<adminSheet, invitations>>
       ELSE IF adminSheet.exists
       THEN /\ lastCall' = Call("setupAdmin", user, "returned")
            /\ UNCHANGED <<adminSheet, invitations>>
       ELSE /\ adminSheet' = [exists |-> TRUE,
                              users |-> <<UserRow(ActiveEmail(user), "active", "")>>,
                              roleColumn |-> FALSE,
                              adminEmail |-> ActiveEmail(user)]
            /\ invitations' = invitations \cup {ActiveEmail(user)}
            /\ lastCall' = Call("setupAdmin", user, "returned")
    /\ UNCHANGED <<geminiModel, docContent>>
    /\ UNCHANGED notAcc

\* ensureAdminSheetTabs_: ensureTab_ creates the tab or appends the columns
\* its header lacks (role among them), the caller is seeded as admin when
\* the tab has no user, admin_email is seeded when missing
EnsureTabs(sheet, email) ==
    [exists |-> TRUE,
     users |-> IF sheet.users = <<>> THEN <<UserRow(email, "active", "admin")>>
               ELSE sheet.users,
     roleColumn |-> TRUE,
     adminEmail |-> IF sheet.adminEmail = "" THEN email ELSE sheet.adminEmail]

\* ensureRoleColumn_: a new role column makes the first user admin; with
\* the column there, admin_email's row is made admin
EnsureRoleColumn(sheet) ==
    IF ~sheet.roleColumn
    THEN [sheet EXCEPT !.roleColumn = TRUE,
                       !.users = [k \in 1..Len(sheet.users) |->
                                    IF k = 1
                                    THEN [sheet.users[k] EXCEPT !.role = "admin"]
                                    ELSE sheet.users[k]]]
    ELSE LET k == RowOf(sheet, sheet.adminEmail)
         IN  IF k # 0
             THEN [sheet EXCEPT !.users[k].role = "admin"]
             ELSE sheet

runSetup(user) ==
    /\ IF ~InDomain(ActiveEmail(user))
       THEN /\ lastCall' = Call("runSetup", user, "threw")
            /\ UNCHANGED <<adminSheet, invitations>>
       ELSE /\ adminSheet' = EnsureRoleColumn(EnsureTabs(adminSheet, ActiveEmail(user)))
            /\ invitations' = IF adminSheet.users = <<>>
                              THEN invitations \cup {ActiveEmail(user)}
                              ELSE invitations
            /\ lastCall' = Call("runSetup", user, "returned")
    /\ UNCHANGED <<geminiModel, docContent>>
    /\ UNCHANGED notAcc

\* inviteUser: a revoked row is reactivated, a new e-mail gets a row
inviteUser(user, targetEmail) ==
    LET target == ToLowerCase(Trim(targetEmail))
        k == RowOf(adminSheet, target)
    IN  /\ IF ~AdminPasses(adminSheet, user)
           THEN /\ lastCall' = Call("inviteUser", user, "threw")
                /\ UNCHANGED <<adminSheet, invitations>>
           ELSE IF ~InDomain(target)
           THEN /\ lastCall' = Call("inviteUser", user, "refused")
                /\ UNCHANGED <<adminSheet, invitations>>
           ELSE /\ adminSheet' =
                      IF k = 0
                      THEN [adminSheet EXCEPT
                              !.users = Append(@, UserRow(target, "active", "user"))]
                      ELSE [adminSheet EXCEPT !.users[k].status = "active"]
                /\ invitations' = invitations \cup {target}
                /\ lastCall' = Call("inviteUser", user, "returned")
        /\ UNCHANGED <<geminiModel, docContent>>
        /\ UNCHANGED notAcc

revokeUser(user, targetEmail) ==
    LET target == ToLowerCase(Trim(targetEmail))
        k == RowOf(adminSheet, target)
    IN  /\ IF ~AdminPasses(adminSheet, user)
           THEN /\ lastCall' = Call("revokeUser", user, "threw")
                /\ UNCHANGED <<adminSheet, invitations>>
           ELSE IF k = 0
           THEN /\ lastCall' = Call("revokeUser", user, "refused")
                /\ UNCHANGED <<adminSheet, invitations>>
           ELSE /\ adminSheet' = [adminSheet EXCEPT !.users[k].status = "revoked"]
                /\ invitations' = invitations \ {target}
                /\ lastCall' = Call("revokeUser", user, "returned")
        /\ UNCHANGED <<geminiModel, docContent>>
        /\ UNCHANGED notAcc

\* showSidebar: checkAccess, then the sidebar or the Access Denied alert
showSidebar(user) ==
    /\ lastCall' = Call("showSidebar", user,
                        IF checkAccess(adminSheet, user).authorized
                        THEN "returned" ELSE "denied")
    /\ UNCHANGED <<adminSheet, geminiModel, docContent, invitations>>
    /\ UNCHANGED notAcc

\* getConfigState: enforceAccess, then the configuration state
getConfigState(user) ==
    /\ lastCall' = Call("getConfigState", user,
                        IF AccessPasses(adminSheet, user) THEN "returned" ELSE "threw")
    /\ UNCHANGED <<adminSheet, geminiModel, docContent, invitations>>
    /\ UNCHANGED notAcc

\* updateCurrentDoc: enforceAccess, then the body of the document is
\* replaced (text without markup: one paragraph per line)
updateCurrentDoc(user, text) ==
    /\ IF AccessPasses(adminSheet, user)
       THEN /\ docContent' = text
            /\ lastCall' = Call("updateCurrentDoc", user, "returned")
       ELSE /\ lastCall' = Call("updateCurrentDoc", user, "threw")
            /\ UNCHANGED docContent
    /\ UNCHANGED <<adminSheet, geminiModel, invitations>>
    /\ UNCHANGED notAcc

\* saveConfig: the script properties are set, no check comes first
saveConfig(user, settings) ==
    /\ geminiModel' = settings.model
    /\ lastCall' = Call("saveConfig", user, "returned")
    /\ UNCHANGED <<adminSheet, docContent, invitations>>
    /\ UNCHANGED notAcc

\* getCurrentDocContent: name, content and id of the document, no check
getCurrentDocContent(user) ==
    /\ lastCall' = Call("getCurrentDocContent", user, "returned")
    /\ UNCHANGED <<adminSheet, geminiModel, docContent, invitations>>
    /\ UNCHANGED notAcc

\* Users of the add-on and what they pass.
Users == {"admin@salesforce.com", "Eve@Salesforce.com", "mallory@example.com"}
Targets == {" Eve@salesforce.com ", "mallory@example.com"}
ModelSettings == {[model |-> "gemini-2.0-flash"], [model |-> "other"]}
DocTexts == {"draft", "new text"}

AccessNext ==
    \/ \E user \in Users : setupAdmin(user)
    \/ \E user \in Users : runSetup(user)
    \/ \E user \in Users : \E t \in Targets : inviteUser(user, t)
    \/ \E user \in Users : \E t \in Targets : revokeUser(user, t)
    \/ \E user \in Users : showSidebar(user)
    \/ \E user \in Users : getConfigState(user)
    \/ \E user \in Users : \E text \in DocTexts : updateCurrentDoc(user, text)
    \/ \E user \in Users : \E settings \in ModelSettings : saveConfig(user, settings)
    \/ \E user \in Users : getCurrentDocContent(user)

-----------------------------------------------------------------------------
(* The outline: OutlineBuilder and the outline handlers of Workspace       *)

OutlineItem(id, heading, content, order, isExpanded) ==
    [id |-> id, heading |-> heading, content |-> content, order |-> order,
     isExpanded |-> isExpanded]

OutlineParked ==
    /\ outline = <<>>
    /\ now = 0
    /\ provocations = <<>>

MaxOutline == 3
MaxNow == 4

OutlineHeadings == {"Intro", " Scope "}
OutlineContents == {"", "text"}

\* order: safeOutline.length
NextOrder(items) == Len(items)

\* OutlineBuilder.handleAddItem and handleAddOutlineItem; the id is
\* Date.now().toString(), the clock having advanced since the last add.
handleAddItem(newHeading) ==
    /\ phase = "workspace"
    /\ Trim(newHeading) # ""
    /\ Len(outline) < MaxOutline /\ now < MaxNow
    /\ now' = now + 1
    /\ outline' = Append(outline,
                         OutlineItem(ToString(now'), Trim(newHeading), "",
                                     NextOrder(outline), TRUE))
    /\ UNCHANGED provocations
    /\ UNCHANGED clientVars
    /\ UNCHANGED notWorkspace

\* the updates OutlineItemCard and handleExpand pass to onUpdateItem
OutlineUpdates(item) ==
    {[heading |-> Trim(h), content |-> item.content, isExpanded |-> item.isExpanded] :
        h \in OutlineHeadings}
    \cup {[heading |-> item.heading, content |-> item.content,
           isExpanded |-> ~item.isExpanded]}
    \cup {[heading |-> item.heading, content |-> c, isExpanded |-> e] :
            c \in OutlineContents, e \in {item.isExpanded, TRUE}}

\* prev.map((item) => (item.id === id ? { ...item, ...updates } : item))
handleUpdateOutlineItem(id, updates) ==
    /\ phase = "workspace"
    /\ outline' = [k \in 1..Len(outline) |->
                     IF outline[k].id = id
                     THEN OutlineItem(id, updates.heading, updates.content,
                                      outline[k].order, updates.isExpanded)
                     ELSE outline[k]]
    /\ UNCHANGED <<now, provocations>>
    /\ UNCHANGED clientVars
    /\ UNCHANGED notWorkspace

\* prev.filter((item) => item.id !== id)
handleRemoveOutlineItem(id) ==
    /\ phase = "workspace"
    /\ LET Keep(item) == item.id # id
       IN  outline' = SelectSeq(outline, Keep)
    /\ UNCHANGED <<now, provocations>>
    /\ UNCHANGED clientVars
    /\ UNCHANGED notWorkspace

\* the arrays a reordering of the list can pass: the items in another order
Reorderings(items) ==
    {[k \in 1..Len(items) |-> items[f[k]]] :
        f \in {g \in [1..Len(items) -> 1..Len(items)] :
                 \A a, b \in 1..Len(items) : a # b => g[a] # g[b]}}

\* setOutline(items)
handleReorderOutline(items) ==
    /\ phase = "workspace"
    /\ outline' = items
    /\ UNCHANGED <<now, provocations>>
    /\ UNCHANGED clientVars
    /\ UNCHANGED notWorkspace

\* Array.prototype.sort((a, b) => a.order - b.order): stable, in place
RECURSIVE SortByOrder(_)
SortByOrder(items) ==
    IF items = <<>> THEN <<>>
    ELSE LET k == CHOOSE i \in 1..Len(items) :
                     /\ \A j \in 1..Len(items) : items[i].order <= items[j].order
                     /\ \A j \in 1..(i - 1) : items[j].order # items[i].order
         IN  <<items[k]>> \o SortByOrder(RemoveAt(items, k))

\* OutlineBuilder renders: safeOutline.sort(...) sorts the state array itself
RenderOutline ==
    /\ phase = "workspace"
    /\ outline # <<>>
    /\ outline' = SortByOrder(outline)
    /\ UNCHANGED <<now, provocations>>
    /\ UNCHANGED clientVars
    /\ UNCHANGED notWorkspace

OutlineTexts == {"a"}

OutlineNext ==
    \/ \E text \in OutlineTexts : handleAnalyze(text)
    \/ \E k \in 1..MaxInFlight : AnalyzeSuccess(k)
    \/ handleReset
    \/ \E h \in OutlineHeadings \cup {" "} : handleAddItem(h)
    \/ \E k \in 1..Len(outline) : \E u \in OutlineUpdates(outline[k]) :
          handleUpdateOutlineItem(outline[k].id, u)
    \/ \E k \in 1..Len(outline) : handleRemoveOutlineItem(outline[k].id)
    \/ \E items \in Reorderings(outline) : handleReorderOutline(items)
    \/ RenderOutline

-----------------------------------------------------------------------------
(* 4.2 Context assembly of the write handler                               *)

instructionStrategies ==
    [expand |-> "Add depth, examples, supporting details, and elaboration. Develop ideas more fully while maintaining coherence.",
     condense |-> "Remove redundancy, tighten prose, eliminate filler words. Preserve core meaning while reducing length.",
     restructure |-> "Reorganize content for better flow. Add or modify headings, reorder sections, improve logical progression.",
     clarify |-> "Simplify language, add transitions, break down complex ideas. Make the text more accessible without losing meaning.",
     style |-> "Adjust the voice and tone. Maintain the content while shifting the register, formality, or emotional quality.",
     correct |-> "Fix errors in grammar, spelling, facts, or logic. Make precise corrections without unnecessary changes.",
     general |-> "Make targeted improvements based on the specific instruction. Balance multiple considerations appropriately."]

lensTypes == {"consumer", "executive", "technical", "financial", "strategic", "skeptic"}

lensDescriptions ==
    [consumer |-> "end-user/customer perspective - focusing on user needs and experience",
     executive |-> "strategic leadership perspective - focusing on business impact",
     technical |-> "technical implementation perspective - focusing on feasibility",
     financial |-> "financial perspective - focusing on costs and ROI",
     strategic |-> "competitive positioning perspective - focusing on market advantage",
     skeptic |-> "critical perspective - questioning assumptions and risks"]

lengthInstructions ==
    [shorter |-> "Make it more concise (60-70% of current length)",
     same |-> "Maintain similar length",
     longer |-> "Expand with more detail (130-150% of current length)"]

\* An optional string field that is not set is the empty text here: the
\* handlers test the fields for truthiness, and undefined, null and ""
\* take the same branch.
Unset == ""

\* An optional provocation: the four fields, or none.
NoProvocation == [set |-> FALSE, type |-> "", title |-> "", content |-> "",
                  sourceExcerpt |-> ""]
ProvocationContext(type, title, content, sourceExcerpt) ==
    [set |-> TRUE, type |-> type, title |-> title, content |-> content,
     sourceExcerpt |-> sourceExcerpt]

ReferenceDocument(type, name, content) ==
    [type |-> type, name |-> name, content |-> content]

\* Array.prototype.join
RECURSIVE Join(_, _)
Join(parts, sep) ==
    IF parts = <<>> THEN ""
    ELSE IF Len(parts) = 1 THEN parts[1]
    ELSE parts[1] \o sep \o Join(Tail(parts), sep)

\* e.instruction.slice(0, n) followed by "..." when the text is longer
Ellipsis(text, n) == Slice(text, n) \o (IF Len(text) > n THEN "..." ELSE "")

HistoryBlock(history) ==
    LET last == SliceLast(history, 5)
        line(e) == "- [" \o e.instructionType \o "] " \o Ellipsis(e.instruction, 80)
    IN  "RECENT EDIT HISTORY (maintain consistency with previous changes):\n"
        \o Join([k \in 1..Len(last) |-> line(last[k])], "\n")

TypeLabel(type) ==
    IF type = "style" THEN "STYLE GUIDE"
    ELSE IF type = "template" THEN "TEMPLATE" ELSE "EXAMPLE"

ReferenceBlock(i, refs) ==
    LET summary(d) == "[" \o TypeLabel(d.type) \o ": " \o d.name \o "]\n"
                      \o Ellipsis(d.content, 1000)
    IN  "REFERENCE DOCUMENTS (use these to guide tone, style, and structure):\n"
        \o Join([k \in 1..Len(refs) |-> summary(refs[k])], "\n\n---\n\n")
        \o "\n\n"
        \o (IF i = "web"
            THEN "Analyze the style, structure, and voice of these references. Match the target document's quality, formatting patterns, and professional standards where appropriate."
            ELSE "Analyze the style, structure, and voice of these references. Match the target document's quality where appropriate.")

\* if (activeLens) on the server, whose schema admits the six lens types
\* only; if (activeLens && LENS_DESCRIPTIONS[activeLens]) in the add-on
LensIncluded(i, activeLens) ==
    IF i = "web" THEN activeLens # Unset
    ELSE activeLens # Unset /\ activeLens \in lensTypes

LensBlock(activeLens) ==
    "PERSPECTIVE: Apply the " \o activeLens \o " lens ("
    \o lensDescriptions[activeLens] \o ")"

ProvocationBlock(provocation) ==
    "PROVOCATION BEING ADDRESSED:\n"
    \o "Type: " \o provocation.type \o "\n"
    \o "Challenge: " \o provocation.title \o "\n"
    \o "Details: " \o provocation.content \o "\n"
    \o "Relevant excerpt: \"" \o provocation.sourceExcerpt \o "\""

ToneBlock(tone) == "TONE: Write in a " \o tone \o " voice"

\* lengthInstructions[targetLength]; the add-on falls back to the value
\* itself for a key the table does not have
LengthBlock(i, targetLength) ==
    "LENGTH: " \o (IF targetLength \in DOMAIN lengthInstructions
                   THEN lengthInstructions[targetLength]
                   ELSE targetLength)

Optional(included, block) == IF included THEN <<block>> ELSE <<>>

\* Mutant: the tone is pushed before the provocation.
BuildContextParts_toneFirst(i, req) ==
    LET type == classifyInstruction(i, req.instruction)
    IN  <<"INSTRUCTION TYPE: " \o type \o "\nSTRATEGY: " \o instructionStrategies[type]>>
        \o Optional(Len(req.editHistory) > 0, HistoryBlock(req.editHistory))
        \o Optional(Len(req.referenceDocuments) > 0,
                    ReferenceBlock(i, req.referenceDocuments))
        \o Optional(LensIncluded(i, req.activeLens), LensBlock(req.activeLens))
        \o Optional(req.tone # Unset, ToneBlock(req.tone))
        \o Optional(req.provocation.set, ProvocationBlock(req.provocation))
        \o Optional(req.targetLength # Unset, LengthBlock(i, req.targetLength))

\* contextParts after the last push
BuildContextParts(i, req) ==
    LET type == classifyInstruction(i, req.instruction)
    IN  <<"INSTRUCTION TYPE: " \o type \o "\nSTRATEGY: " \o instructionStrategies[type]>>
        \o Optional(Len(req.editHistory) > 0, HistoryBlock(req.editHistory))
        \o Optional(Len(req.referenceDocuments) > 0,
                    ReferenceBlock(i, req.referenceDocuments))
        \o Optional(LensIncluded(i, req.activeLens), LensBlock(req.activeLens))
        \o Optional(req.provocation.set, ProvocationBlock(req.provocation))
        \o Optional(req.tone # Unset, ToneBlock(req.tone))
        \o Optional(req.targetLength # Unset, LengthBlock(i, req.targetLength))

BuildContextSection(parts) ==
    IF Len(parts) > 0 THEN "\n\nCONTEXT:\n" \o Join(parts, "\n\n") ELSE ""

\* Requests of the assembly.
MaxAssemblies == 2

CtxInstructions == {"Expand the intro", "fix the typo", "hello"}

CtxEntry(k) ==
    [instructionType |-> IF k % 2 = 0 THEN "expand" ELSE "correct",
     instruction |-> IF k = 2 THEN Repeat("x", 81)
                     ELSE "edit " \o ToString(k)]

Tenfold(t) == t \o t \o t \o t \o t \o t \o t \o t \o t \o t

\* a content of 1001 characters
LongContent == Tenfold(Tenfold(Tenfold("m"))) \o "m"

CtxHistories == {<<>>, <<CtxEntry(1)>>, [k \in 1..6 |-> CtxEntry(k)]}

CtxReferences ==
    {<<>>,
     <<ReferenceDocument("style", "House style", "Short sentences.")>>,
     <<ReferenceDocument("template", "Memo", LongContent),
       ReferenceDocument("example", "Last memo", "Dear all")>>}

CtxLenses == {Unset, "skeptic"}
CtxProvocations ==
    {NoProvocation,
     ProvocationContext("fallacy", "Weak claim", "No evidence is given", "sales will double")}
CtxTones == {Unset, "analytical"}
CtxLengths == {Unset, "shorter", "same", "longer"}

CtxRequests ==
    [instruction : CtxInstructions, editHistory : CtxHistories,
     referenceDocuments : CtxReferences, activeLens : CtxLenses,
     provocation : CtxProvocations, tone : CtxTones,
     targetLength : CtxLengths]

CtxInit ==
    /\ ctxImpl \in Impls
    /\ ctxRequest \in CtxRequests
    /\ contextParts = <<>>
    /\ contextSection = ""
    /\ ctxSections = <<>>

\* The handler up to `const contextSection = ...`
AssembleContext ==
    /\ Len(ctxSections) < MaxAssemblies
    /\ contextParts' = BuildContextParts(ctxImpl, ctxRequest)
    /\ contextSection' = BuildContextSection(contextParts')
    /\ ctxSections' = Append(ctxSections, contextSection')
    /\ UNCHANGED <<ctxImpl, ctxRequest>>
    /\ UNCHANGED notCtx

-----------------------------------------------------------------------------
(* Specifications                                                          *)

ClsParked ==
    /\ clsImpl = "web"
    /\ clsInput = ""
    /\ clsResult = "none"
    /\ clsCalls = <<>>
    /\ regexLastIndex = NoLastIndex

DiffParked ==
    /\ diffOld = ""
    /\ diffNew = ""
    /\ diffLines = <<>>
    /\ oldIdx = 1 /\ newIdx = 1 /\ result = <<>>

WriteParked ==
    /\ WriteInit
    /\ impl = "web"

CtxParked ==
    /\ ctxImpl = "web"
    /\ ctxRequest = [instruction |-> "", editHistory |-> <<>>,
                     referenceDocuments |-> <<>>, activeLens |-> Unset,
                     provocation |-> NoProvocation, tone |-> Unset,
                     targetLength |-> Unset]
    /\ contextParts = <<>>
    /\ contextSection = ""
    /\ ctxSections = <<>>

ClassifyNext == Classify

InitClassify == ClsInit /\ WriteParked /\ ClientInit /\ DiffParked /\ GasInit /\ CtxParked
    /\ OutlineParked /\ AccInit

SpecClassify == InitClassify /\ [][ClassifyNext]_vars

CallsNext == \E i \in Impls : \E instruction \in CallInputs :
                ClassifyCall(i, instruction)

InitCalls == ClsParked /\ WriteParked /\ ClientInit /\ DiffParked /\ GasInit /\ CtxParked
    /\ OutlineParked /\ AccInit

SpecCalls == InitCalls /\ [][CallsNext]_vars

DiffNext == RenderDiff

InitDiff == DiffInit /\ ClsParked /\ WriteParked /\ ClientInit /\ GasInit /\ CtxParked
    /\ OutlineParked /\ AccInit

SpecDiff == InitDiff /\ [][DiffNext]_vars

DiffLoopNext == DiffIterate \/ DiffReturn

InitDiffLoop == DiffLoopInit /\ ClsParked /\ WriteParked /\ ClientInit /\ GasInit /\ CtxParked
    /\ OutlineParked /\ AccInit

SpecDiffLoop == InitDiffLoop /\ [][DiffLoopNext]_vars

InitWrite == WriteInit /\ ClsParked /\ ClientInit /\ DiffParked /\ GasInit /\ CtxParked
    /\ OutlineParked /\ AccInit

SpecWrite == InitWrite /\ [][WriteNext]_vars

InitClient == ClientInit /\ ClsParked /\ WriteParked /\ DiffParked /\ GasInit /\ CtxParked
    /\ OutlineParked /\ AccInit

SpecClient ==
    /\ InitClient
    /\ [][ClientNext]_vars

SpecHistory == InitClient /\ [][HistoryNext]_vars

SpecSession == InitClient /\ [][SessionNext]_vars

SpecConcurrent == InitClient /\ [][ConcurrentNext]_vars

SpecOutline == InitClient /\ [][OutlineNext]_vars

SpecTyping == InitClient /\ [][TypingNext]_vars

SpecReset == InitClient /\ [][ResetNext]_vars

SpecVoice == InitClient /\ [][VoiceNext]_vars

InitAccess ==
    /\ AccInit /\ ClsParked /\ WriteParked /\ ClientInit /\ DiffParked /\ GasInit
    /\ CtxParked /\ OutlineParked

SpecAccess == InitAccess /\ [][AccessNext]_vars

InitGas ==
    /\ WriteInit /\ impl = "gas"
    /\ GasInit /\ ClsParked /\ ClientInit /\ DiffParked /\ CtxParked
    /\ OutlineParked /\ AccInit

SpecGas == InitGas /\ [][GasNext]_vars

ContextNext == AssembleContext

InitContext ==
    /\ CtxInit /\ ClsParked /\ WriteParked /\ ClientInit /\ DiffParked /\ GasInit
    /\ OutlineParked /\ AccInit

SpecContext == InitContext /\ [][ContextNext]_vars

-----------------------------------------------------------------------------
(* Properties                                                              *)

AnalysisCalls == SelectSeq(calls, LAMBDA c : c.kind = "analysis")

\* the generation call returned an empty response
EmptyGeneration ==
    /\ generation.returned
    /\ IF impl = "web" THEN ~Truthy(generation.content)
       ELSE extractContent_(generation.content) = ""

\* C1 (as claimed): whenever the document-generation call returns an empty
\* response, the write returns the request's document text unchanged,
\* character for character, and reports no error.
C1_EvolverFailSoft ==
    (pc = "done" /\ EmptyGeneration) =>
        /\ response.status = "ok"
        /\ response.document = request.document

\* C2 (as claimed): once the document-generation call has returned, no failure
\* of the change-analysis step reaches the caller: the write succeeds and
\* returns the evolved document with a summary.
C2_AnalysisNeverFailsWrite ==
    (pc = "done" /\ generation.returned) =>
        /\ response.status = "ok"
        /\ response.document = Trim(evolvedDocument)
        /\ response.summary.kind # "absent"

\* every change-analysis attempt that was made returned unparsable JSON (the
\* add-on makes two attempts, the server one)
AllAttemptsUnparsable ==
    /\ pc = "done"
    /\ Len(replies) >= 1
    /\ \A n \in 1..Len(replies) : replies[n].outcome = "unparsable"

\* C3: if every change-analysis attempt (both of them, where a second one is
\* made) returns unparsable JSON, the analysis result is summary =
\* "Applied: " + the first 100 characters of the instruction + "..." iff the
\* instruction is longer than 100 characters, changes = [] and
\* suggestions = [], and that is what the caller receives.
C3_FallbackDeterminism ==
    AllAttemptsUnparsable =>
        LET ins == request.instruction
            cut == IF Len(ins) > 100 THEN SubSeq(ins, 1, 100) ELSE ins
        IN  /\ analysis.summary.kind = "str"
            /\ analysis.summary.text =
                  "Applied: " \o cut \o (IF Len(ins) > 100 THEN "..." ELSE "")
            /\ analysis.changes = <<>>
            /\ analysis.suggestions = <<>>
            /\ response.status = "ok"
            /\ response.summary = analysis.summary
            /\ response.changes = <<>>
            /\ response.suggestions = <<>>

C3_Witness ==
    /\ AllAttemptsUnparsable
    /\ Len(replies) = 2
    /\ Len(request.instruction) > 100
    /\ replies[1].content.kind = "garbage"
    /\ analysis.summary.text = "Applied: " \o SubSeq(request.instruction, 1, 100) \o "..."

\* C4 (as claimed): when the first change-analysis response fails to parse,
\* exactly one further request is issued, carrying the "ONLY valid JSON"
\* instruction, and never a third; when it parses, none is issued; a second
\* request is only ever issued after a parse failure of the first.
C4_RetryExactlyOnce ==
    /\ Len(AnalysisCalls) <= 2
    /\ (Len(replies) >= 1 /\ replies[1].outcome = "unparsable") =>
          (Len(AnalysisCalls) = 2 /\ AnalysisCalls[2].retryInstruction)
    /\ (Len(replies) >= 1 /\ replies[1].outcome = "parsed") =>
          Len(AnalysisCalls) = 1
    /\ Len(AnalysisCalls) = 2 => replies[1].outcome = "unparsable"

\* the JSON value the change analysis finally read, when it read one
ParsedReply == replies[Len(replies)]
ParsedValue ==
    IF ParsedReply.content.kind \in {"null", "empty"}
    THEN JsonObject(AbsentField, NotArray, NotArray)
    ELSE ParsedReply.content.value

\* C5: for every model output the analysis returned to the caller has at
\* most 3 changes, each with a type of the enum (a type outside it having
\* been replaced by "modified"), and at most 2 suggestions.
C5_AnalysisClamped ==
    (pc = "done" /\ response.status = "ok") =>
        /\ Len(response.changes) <= 3
        /\ Len(response.suggestions) <= 2
        /\ \A n \in 1..Len(response.changes) :
              /\ response.changes[n].type \in
                    {"added", "modified", "removed", "restructured"}
              /\ LET given == ParsedValue.changes.items[n].type IN
                 response.changes[n].type =
                    IF given \in {"added", "modified", "removed", "restructured"}
                    THEN given ELSE "modified"

C5_Witness ==
    /\ pc = "done" /\ response.status = "ok"
    /\ ParsedReply.outcome = "parsed"
    /\ Len(ParsedValue.changes.items) > 3
    /\ Len(ParsedValue.suggestions.items) > 2
    /\ Len(response.changes) = 3
    /\ Len(response.suggestions) = 2
    /\ \E n \in 1..3 : /\ ParsedValue.changes.items[n].type = "deleted"
                       /\ response.changes[n].type = "modified"

\* the categories in declaration order
CategoryOrder ==
    <<"expand", "condense", "restructure", "clarify", "style", "correct">>

\* category k has at least one pattern matching the classified instruction
CategoryMatches(k) ==
    \E n \in 1..Len(PatternTable(clsImpl)[k].patterns) :
        PatternTest(clsImpl, PatternTable(clsImpl)[k].patterns[n],
                    ToLowerCase(clsInput))

\* C10: classifyInstruction returns the first category, in the declaration
\* order expand, condense, restructure, clarify, style, correct, that has a
\* pattern matching the instruction case-insensitively, however many later
\* categories also match, and general if and only if no category matches.
C10_ClassifierPriority ==
    clsResult # "none" =>
        LET matching == {k \in 1..Len(CategoryOrder) : CategoryMatches(k)} IN
        /\ \A k \in 1..Len(CategoryOrder) :
              PatternTable(clsImpl)[k].type = CategoryOrder[k]
        /\ (clsResult = "general") <=> (matching = {})
        /\ matching # {} =>
              \E k \in matching : /\ \A j \in matching : k <= j
                                  /\ clsResult = CategoryOrder[k]

C10_Witness ==
    /\ clsResult = "condense"
    /\ Includes(ToLowerCase(clsInput), "shorten")
    /\ Includes(ToLowerCase(clsInput), "tone")
    /\ CategoryMatches(2) /\ CategoryMatches(5)

IsPrefix(a, b) == Len(a) <= Len(b) /\ SubSeq(b, 1, Len(a)) = a

\* a step of handleReset: the only handler that leads to the input screen
ResetStep == phase # "input" /\ phase' = "input"

\* a step in which an analysis settles (onSuccess or onError)
AnalysisSettles == Len(analyzing') < Len(analyzing)

\* C6 (as claimed): the version list is a pure append-only log: every
\* operation leaves the existing entries in place and in order, and adds at
\* most one version, at the end.
C6_PureAppendOnly ==
    [][IsPrefix(versions, versions') /\ Len(versions') <= Len(versions) + 1]_vars

\* C6 (amended): between resets and analyses the version list is append-only:
\* every operation other than a reset and the completion of an analysis
\* leaves the existing entries in place and in order and adds at most one
\* version, at the end; a reset empties the list, and an analysis that
\* succeeds replaces the list by the single version "Original document" of
\* the analysed text.
C6_AppendOnlyBetweenResets ==
    [][IF ResetStep THEN versions' = <<>>
       ELSE IF AnalysisSettles
       THEN \/ versions' = versions
            \/ \E k \in 1..Len(analyzing) :
                  versions' = <<[text |-> analyzing[k].body,
                                 description |-> "Original document"]>>
       ELSE /\ IsPrefix(versions, versions')
            /\ Len(versions') <= Len(versions) + 1]_vars

C6_Witness ==
    /\ Len(versions) = 3
    /\ versions[1].description = "Original document"
    /\ versions[2].description = "Voice edit on selection"
    /\ versions[3].description = "After text edit"
    /\ versions[2].text # versions[1].text

\* C7 (as claimed): once the version list holds a version (an analysis has
\* succeeded), no later operation leaves it empty.
C7_NeverEmptyAgain ==
    [][versions # <<>> => versions' # <<>>]_vars

\* C7 (amended): from a successful analysis until the next reset the version
\* list is not empty: the analysis seeds it with one version holding the
\* analysed text, described as "Original document", which stays first while
\* the workspace is shown, and no operation other than a reset empties it.
C7_SeededUntilReset ==
    /\ [](phase = "workspace" =>
            /\ versions # <<>>
            /\ versions[1].description = "Original document")
    /\ [][(AnalysisSettles /\ phase' = "workspace" /\ versions' # versions) =>
            \E k \in 1..Len(analyzing) :
               /\ versions' = <<[text |-> analyzing[k].body,
                                 description |-> "Original document"]>>
               /\ document' = Doc(analyzing[k].body)]_vars
    /\ [][(versions # <<>> /\ versions' = <<>>) => ResetStep]_vars

C7_Witness ==
    /\ phase = "workspace"
    /\ analyzing = <<>> /\ writing = <<>> /\ editing = <<>>
    /\ Len(versions) = 2
    /\ versions[1] = [text |-> "b", description |-> "Original document"]

\* C8: the diff view is offered and rendered only when at least two versions
\* exist, and it compares the second-to-last version with the last one; with
\* fewer than two versions it is neither offered nor rendered.
C8_DiffNeedsTwoVersions ==
    /\ DiffOffered => Len(versions) >= 2
    /\ DiffRendered =>
          /\ Len(versions) >= 2
          /\ previousVersion = [isNull |-> FALSE,
                                text |-> versions[Len(versions) - 1].text,
                                description |-> versions[Len(versions) - 1].description]
          /\ currentVersion = [isNull |-> FALSE,
                               text |-> versions[Len(versions)].text,
                               description |-> versions[Len(versions)].description]
    /\ Len(versions) < 2 => ~DiffOffered /\ ~DiffRendered

C8_Witness ==
    /\ DiffRendered
    /\ Len(versions) = 3
    /\ versions[1].text # versions[2].text

\* the diff view was switched on and an analysis then replaced the list:
\* one version, nothing to compare, the reading pane is shown
C8_SwitchedOnWithOneVersion ==
    phase = "workspace" /\ showDiffView /\ Len(versions) = 1

CallsMade == {clsCalls[k] : k \in 1..Len(clsCalls)}

C11_ClassifierPure ==
    /\ \A c \in CallsMade : c.type = classifyInstruction(c.impl, c.instruction)
    /\ \A c, d \in CallsMade :
          c.impl = d.impl /\ c.instruction = d.instruction => c.type = d.type
    /\ regexLastIndex = NoLastIndex
    /\ \A c \in CallsMade :
          /\ c.instruction = "please expand this section" => c.type = "expand"
          /\ c.instruction = "fix the typo in paragraph 2" => c.type = "correct"
          /\ c.instruction = "reorganize the intro" => c.type = "restructure"
          /\ c.instruction = "make it pop" => c.type = "general"

\* the same instruction classified twice with another call in between
C11_Witness ==
    /\ Len(clsCalls) = 3
    /\ clsCalls[1] = clsCalls[3]
    /\ clsCalls[1].instruction = "please expand this section"
    /\ clsCalls[2].instruction = "fix the typo in paragraph 2"

\* Helpers for the diff claims: the lines a sample text was built from, and
\* the entries of one type.
TextLines(sample, t) == CHOOSE lines \in LineSeqs(sample) : JoinLines(lines) = t

Marked(type, lines) == [k \in 1..Len(lines) |-> DiffLine(type, lines[k])]

CountOf(type) == Cardinality({k \in 1..Len(diffLines) : diffLines[k].type = type})

Rendered == diffLines # <<>>

\* C12: the diff of a text against itself marks every line of the text
\* unchanged, in order, and has no added and no removed entry.
C12_DiffIdentity ==
    Rendered /\ diffOld = diffNew =>
        diffLines = Marked("unchanged", TextLines(OldSampleLines, diffOld))

C12_Witness ==
    /\ Rendered
    /\ diffOld = diffNew
    /\ diffOld = "A\n\nA"

\* C13: for texts that share no line the diff is the old lines as removed
\* followed by the new lines as added; and for any two texts the added and
\* removed entries together are no more than the lines of both texts.
ShareNoLine(a, b) ==
    \A i \in 1..Len(a) : \A j \in 1..Len(b) : a[i] # b[j]

C13_DiffDisjoint ==
    Rendered =>
        LET old == TextLines(OldSampleLines, diffOld)
            new == TextLines(NewSampleLines, diffNew)
        IN  /\ ShareNoLine(old, new) =>
                  diffLines = Marked("removed", old) \o Marked("added", new)
            /\ CountOf("added") + CountOf("removed") <= Len(old) + Len(new)

C13_Witness ==
    /\ Rendered
    /\ diffOld = "B\nB"
    /\ diffNew = "B2\nB2\nB2"

\* C14: two texts of the same number of lines that differ at one position
\* only, with the old line absent from the new text and the new line absent
\* from the old one: every other line is unchanged, and at that position
\* the old line is removed and the new line added right after it.
DiffersOnlyAt(old, new, k) ==
    /\ Len(old) = Len(new)
    /\ k \in 1..Len(old)
    /\ \A j \in 1..Len(old) : (old[j] = new[j]) <=> (j # k)
    /\ \A j \in 1..Len(new) : old[k] # new[j] /\ new[k] # old[j]

C14_DiffSingleChange ==
    Rendered =>
        LET old == TextLines(OldSampleLines, diffOld)
            new == TextLines(NewSampleLines, diffNew)
        IN  \A k \in 1..Len(old) :
               DiffersOnlyAt(old, new, k) =>
                  diffLines =
                     Marked("unchanged", SubSeq(old, 1, k - 1))
                     \o <<DiffLine("removed", old[k]), DiffLine("added", new[k])>>
                     \o Marked("unchanged", SubSeq(old, k + 1, Len(old)))

C14_Witness ==
    /\ Rendered
    /\ diffOld = "A\nB\nC"
    /\ diffNew = "A\nB2\nC"
    /\ diffLines = <<DiffLine("unchanged", "A"), DiffLine("removed", "B"),
                     DiffLine("added", "B2"), DiffLine("unchanged", "C")>>

\* C15: a write request whose document or instruction is empty is answered
\* with the validation error and no generation request is ever issued for
\* it.
C15_ValidatedBeforeGeneration ==
    (pc # "idle" /\ (request.document = "" \/ request.instruction = "")) =>
        /\ calls = <<>>
        /\ pc = "done"
        /\ response.status = "invalid"
        /\ ~generation.returned

\* the server has turned down a request with a document but no instruction
C15_Witness ==
    /\ impl = "web"
    /\ pc = "done"
    /\ request.document # "" /\ request.objective # ""
    /\ request.instruction = ""
    /\ response.code = 400
    /\ calls = <<>>

\* C16: when the document-generation request fails the handler issues no
\* further request and answers with the error "Failed to evolve document",
\* and the session keeps the document text, the version list and the edit
\* history it had when the write was requested.
GenerationFailed == pc = "done" /\ calls # <<>> /\ ~generation.returned

RequestsOf(kind) == Len(SelectSeq(calls, LAMBDA c : c.kind = kind))

C17_NoOtherRetry ==
    /\ RequestsOf("lenses") <= 1
    /\ RequestsOf("provocations") <= 1
    /\ RequestsOf("generate") <= 1
    /\ RequestsOf("intent") <= 1

\* what does hold: evolution and intent summarisation ask once, the three
\* users of callGeminiJson at most twice
C17_AtMostOneRetry ==
    /\ RequestsOf("generate") <= 1
    /\ RequestsOf("intent") <= 1
    /\ \A kind \in {"lenses", "provocations", "analysis"} : RequestsOf(kind) <= 2

\* C20 (as claimed): for every document id analyzeText has returned,
\* getVersions of that id holds the initial version with the analysed text;
\* no version row is recorded under an empty document id, and the initial
\* version of a document is not recorded under another document's id.
InitialRows ==
    SelectSeq(sheetVersions, LAMBDA row : row.description = "Initial document")

AnalysedText(docId) ==
    (CHOOSE k \in 1..Len(sheetDocuments) : sheetDocuments[k].id = docId).text

C20_VersionsUnderOwnDocument ==
    /\ \A k \in 1..Len(analyzeResults) :
          LET d == analyzeResults[k].documentId
              listed == getVersions(sheetVersions, d)
          IN  \E n \in 1..Len(listed) :
                 /\ listed[n].text = AnalysedText(d)
                 /\ listed[n].description = "Initial document"
    /\ \A n \in 1..Len(sheetVersions) : sheetVersions[n].documentId # ""
    /\ \A j \in 1..Len(InitialRows) :
          InitialRows[j].documentId = sheetDocuments[j].id

\* what does hold: the initial version of the j-th document is recorded
\* under the id CURRENT_DOC_ID had then, that of the document before it
C20_InitialRowUnderPreviousDocument ==
    \A j \in 1..Len(InitialRows) :
        InitialRows[j].documentId =
            IF j = 1 THEN "" ELSE sheetDocuments[j - 1].id

\* C18 (as claimed): a write whose generation call returned an empty
\* response leaves the session as it was: once its response has been
\* applied, the document text is the one the write was requested for and
\* the version list has no new entry.
EmptyWriteApplied ==
    /\ impl = "web" /\ pc = "done" /\ EmptyGeneration
    /\ response.status = "ok"
    /\ writing = <<>>

C18_EmptyGenerationNoOp ==
    EmptyWriteApplied =>
        /\ document = Doc(request.document)
        /\ versions = InitialVersions(request.document)

\* what does hold: the text is the trimmed one and a version holding it has
\* been appended
C18_EmptyGenerationAppends ==
    EmptyWriteApplied =>
        /\ document = Doc(Trim(request.document))
        /\ versions = Append(InitialVersions(request.document),
                             DocumentVersion(Trim(request.document),
                                             "Voice edit on selection"))

\* C19: with writes in flight at the same time, every successful response
\* that arrives while the session has a document appends exactly one
\* version, at the end of the list (so the versions are in arrival order and
\* none is lost), and the document text becomes the text of that response.
Applied(data) ==
    /\ Len(versions') = Len(versions) + 1
    /\ SubSeq(versions', 1, Len(versions)) = versions
    /\ versions'[Len(versions')].text = data.document
    /\ document' = Doc(data.document)

ResponseApplied ==
    /\ Len(writing') < Len(writing) =>
          \A k \in 1..Len(writing) :
             \A data \in WriteOutcomes(writing[k].body, ClientGenerations, ClientAnalyses) :
                (data.status = "ok" /\ WriteSuccess(k, data)) => Applied(data)
    /\ Len(editing') < Len(editing) =>
          \A k \in 1..Len(editing) :
             \A data \in WriteOutcomes(editing[k].body, ClientGenerations, ClientAnalyses) :
                (data.status = "ok" /\ handleTextEdit(k, data)) => Applied(data)

LoopOld == TextLines(LoopOldLines, diffOld)
LoopNew == TextLines(LoopNewLines, diffNew)

Occurs(line, lines) == \E k \in 1..Len(lines) : lines[k] = line

OfTypes(entries, types) ==
    LET Keep(e) == e.type \in types
        kept == SelectSeq(entries, Keep)
    IN  [k \in 1..Len(kept) |-> kept[k].content]

\* the lines under the cursors differ and each occurs in the other text
CrossedLines ==
    /\ diffLines = <<>>
    /\ oldIdx <= Len(LoopOld) /\ newIdx <= Len(LoopNew)
    /\ LoopOld[oldIdx] # LoopNew[newIdx]
    /\ Occurs(LoopOld[oldIdx], LoopNew)
    /\ Occurs(LoopNew[newIdx], LoopOld)

PairEmitted ==
    /\ result' = result \o <<DiffLine("removed", LoopOld[oldIdx]),
                             DiffLine("added", LoopNew[newIdx])>>
    /\ oldIdx' = oldIdx + 1
    /\ newIdx' = newIdx + 1

SwappedDiff ==
    <<DiffLine("removed", "A"), DiffLine("added", "B"),
      DiffLine("removed", "B"), DiffLine("added", "A")>>

\* C21: whenever the lines under the two cursors differ and each of them
\* occurs somewhere in the other text, the iteration appends the old line
\* as removed and right after it the new line as added, and advances both
\* cursors; and the diff of A, B against B, A is removed A, added B,
\* removed B, added A.
C21_CrossedLinesPair ==
    /\ [][CrossedLines => PairEmitted]_vars
    /\ [](Rendered /\ diffOld = "A\nB" /\ diffNew = "B\nA"
            => diffLines = SwappedDiff)

C21_Witness ==
    /\ diffOld = "A\nB"
    /\ diffNew = "B\nA"
    /\ diffLines = SwappedDiff
    /\ oldIdx = 3 /\ newIdx = 3

\* C26: at every iteration of the loop the removed and unchanged entries
\* emitted so far are the old lines before the old cursor, in order, and
\* the added and unchanged entries are the new lines before the new cursor;
\* so the returned diff holds exactly the old lines as removed or unchanged
\* and exactly the new lines as added or unchanged, and the counts add up.
C26_DiffConservation ==
    /\ OfTypes(result, {"removed", "unchanged"}) = SubSeq(LoopOld, 1, oldIdx - 1)
    /\ OfTypes(result, {"added", "unchanged"}) = SubSeq(LoopNew, 1, newIdx - 1)
    /\ Rendered =>
        /\ OfTypes(diffLines, {"removed", "unchanged"}) = LoopOld
        /\ OfTypes(diffLines, {"added", "unchanged"}) = LoopNew
        /\ CountOf("unchanged") + CountOf("removed") = Len(LoopOld)
        /\ CountOf("unchanged") + CountOf("added") = Len(LoopNew)

C26_Witness ==
    /\ Rendered
    /\ diffOld = "A\n\nB"
    /\ diffNew = "A\nC\nB"
    /\ diffLines = <<DiffLine("unchanged", "A"), DiffLine("removed", ""),
                     DiffLine("added", "C"), DiffLine("unchanged", "B")>>


\* The labels the blocks of the context start with, in the order of the
\* claim, and whether the request calls for each block.
BlockLabels ==
    <<"INSTRUCTION TYPE: ", "RECENT EDIT HISTORY", "REFERENCE DOCUMENTS",
      "PERSPECTIVE: ", "PROVOCATION BEING ADDRESSED:", "TONE: ", "LENGTH: ">>

BlockCalledFor ==
    <<TRUE,
      ctxRequest.editHistory # <<>>,
      ctxRequest.referenceDocuments # <<>>,
      ctxRequest.activeLens # Unset,
      ctxRequest.provocation.set,
      ctxRequest.tone # Unset,
      ctxRequest.targetLength # Unset>>

RECURSIVE CalledForFrom(_)
CalledForFrom(k) ==
    IF k > Len(BlockLabels) THEN <<>>
    ELSE (IF BlockCalledFor[k] THEN <<k>> ELSE <<>>) \o CalledForFrom(k + 1)

StartsWith(s, p) == Len(s) >= Len(p) /\ SubSeq(s, 1, Len(p)) = p

\* where the k-th part starts in the context string: after the heading and
\* after the parts before it, each followed by an empty line
RECURSIVE PartStart(_)
PartStart(k) ==
    IF k = 1 THEN Len("\n\nCONTEXT:\n") + 1
    ELSE PartStart(k - 1) + Len(contextParts[k - 1]) + Len("\n\n")

Assembled == ctxSections # <<>>

\* C22: the parts of an assembled context are exactly the blocks the
\* request calls for, one each, in the order strategy, edit history,
\* reference documents, lens, provocation, tone, length, each starting with
\* its label; the context string is the heading followed by these parts in
\* this order, separated by empty lines; and every assembly of the same
\* request gives the same string.
C22_ContextBlocksInOrder ==
    Assembled =>
        LET called == CalledForFrom(1)
            n == Len(contextParts)
        IN  /\ n = Len(called)
            /\ \A k \in 1..n : StartsWith(contextParts[k], BlockLabels[called[k]])
            /\ StartsWith(contextSection, "\n\nCONTEXT:\n")
            /\ \A k \in 1..n :
                  SubSeq(contextSection, PartStart(k),
                         PartStart(k) + Len(contextParts[k]) - 1) = contextParts[k]
            /\ Len(contextSection) = PartStart(n) + Len(contextParts[n]) - 1
            /\ \A a, b \in 1..Len(ctxSections) : ctxSections[a] = ctxSections[b]

C22_Witness ==
    /\ Len(ctxSections) = 2
    /\ ctxImpl = "gas"
    /\ Len(contextParts) = 7
    /\ Len(ctxRequest.editHistory) = 6
    /\ StartsWith(contextParts[5], "PROVOCATION BEING ADDRESSED:\nType: fallacy")
    /\ contextParts[6] = "TONE: Write in a analytical voice"
    /\ contextParts[7] = "LENGTH: Maintain similar length"


\* C23: the order values of the outline items are pairwise distinct.
C23_OrdersDistinct ==
    \A a, b \in 1..Len(outline) :
        a # b => outline[a].order # outline[b].order

\* What the handlers do keep: the ids of the items are pairwise distinct.
C23_IdsDistinct ==
    \A a, b \in 1..Len(outline) :
        a # b => outline[a].id # outline[b].id


\* C25: whoever checkAccess authorised at the last call has an address of
\* the salesforce.com domain and has been invited and not revoked since.
C25_UninvitedDenied ==
    lastCall.authorized =>
        /\ InDomain(lastCall.email)
        /\ lastCall.email \in invitations

\* Once the admin sheet exists checkAccess authorises the invited users of
\* the domain only.
C25_DeniedOnceSheetExists ==
    adminSheet.exists =>
        \A user \in Users :
            checkAccess(adminSheet, user).authorized =>
                /\ InDomain(ActiveEmail(user))
                /\ ActiveEmail(user) \in invitations

\* C24: a server function returns to its caller only if checkAccess
\* authorises the caller.
C24_EntryPointsEnforceAccess ==
    lastCall.outcome = "returned" => lastCall.authorized

\* The functions that begin with enforceAccess or enforceAdmin do keep
\* unauthorised callers out.
C24_GuardedFunctionsEnforceAccess ==
    /\ lastCall.outcome = "returned"
    /\ lastCall.fn \in {"getConfigState", "updateCurrentDoc", "inviteUser",
                        "revokeUser", "showSidebar"}
    => lastCall.authorized


\* C27: in the workspace phase the document's text is the text of the last
\* element of the version list.
C27_LastVersionIsCurrent ==
    phase = "workspace" =>
        /\ ~document.isNull
        /\ Len(versions) >= 1
        /\ document.rawText = versions[Len(versions)].text

\* a keystroke in the textarea
Typed == \E suffix \in TypedSuffixes : Typing(suffix)

\* Every step except a keystroke leaves the document equal to the last
\* version, and every response applied makes it so again.
C27_CurrentUnlessTyped ==
    [][(C27_LastVersionIsCurrent /\ ~Typed) => C27_LastVersionIsCurrent']_vars

\* what has been typed into the document since mutation m was sent, when
\* the text sent is still the beginning of the document
TypedSince(m) ==
    IF /\ ~document.isNull
       /\ StartsWith(document.rawText, m.body.document)
    THEN SubSeq(document.rawText, Len(m.body.document) + 1, Len(document.rawText))
    ELSE ""

\* the response `data` to the k-th write in flight is applied by this step
WriteApplied(k, data) == data.status = "ok" /\ WriteSuccess(k, data)

\* C28: when the response to a write is applied, what was typed into the
\* document since the write was sent is still in the document.
C28_NoLostUpdate ==
    [][\A k \in 1..Len(writing) :
          \A data \in WriteOutcomes(writing[k].body, ClientGenerations, ClientAnalyses) :
             (WriteApplied(k, data) /\ TypedSince(writing[k]) # "") =>
                Includes(document'.rawText, TypedSince(writing[k]))]_vars

\* What the response does: the document becomes the text of the response,
\* which depends on the request and the generation only.
C28_ResponseReplacesDocument ==
    [][\A k \in 1..Len(writing) :
          \A data \in WriteOutcomes(writing[k].body, ClientGenerations, ClientAnalyses) :
             (WriteApplied(k, data) /\ ~document.isNull) =>
                document'.rawText = data.document]_vars


\* C29: while the input screen shows after a reset, no response makes the
\* workspace appear, and the document and the version list stay empty.
C29_StaleResponsesIgnored ==
    /\ [][phase = "input" => phase' # "workspace"]_vars
    /\ [](phase = "input" => document.isNull /\ versions = <<>>)

\* The response to a write that no later write has superseded is ignored
\* while the document is still null after a reset: its onSuccess is the one
\* of the latest render.
C29_CurrentWriteIgnored ==
    [][\A k \in 1..Len(writing) :
          \A data \in WriteOutcomes(writing[k].body, ClientGenerations, ClientAnalyses) :
             (/\ phase = "input" /\ document.isNull
              /\ writing[k].current /\ WriteSuccess(k, data)) =>
                UNCHANGED <<phase, document, versions>>]_vars


\* the provocations whose voice answer is write m
AnsweredBy(m) ==
    {i \in 1..Len(provocations) :
        m.description = "Addressed provocation: " \o provocations[i].title}

\* C30: when the write triggered by the voice answer to a provocation
\* fails, the provocation is pending afterwards.
C30_AddressedOnlyOnSuccess ==
    [][\A k \in 1..Len(writing) :
          WriteError(k) =>
             \A i \in AnsweredBy(writing[k]) : provocations'[i].status = "pending"]_vars

\* What the handler does: the provocation is addressed from the moment the
\* write is issued, and neither outcome of the write touches it.
C30_AddressedWhenIssued ==
    /\ [][\A i \in 1..Len(provocations) : \A t \in ClientTranscripts :
            (/\ handleVoiceResponse(provocations[i].id, t, provocations[i])
             /\ Len(writing') > Len(writing)) =>
                provocations'[i].status = "addressed"]_vars
    /\ [][Len(writing') < Len(writing) => UNCHANGED provocations]_vars

=============================================================================
